---- MODULE Spec2Model ----
(***************************************************************************)
(* Model of the baxter_pick_and_place control code:                        *)
(*   - Robot.pick_and_place_object / _try_object / _record_image and the   *)
(*     helpers they call (src/src/baxter_pick_and_place/robot.py),         *)
(*   - Servoing.servo / _iterate / _find_rotated_enclosing_rect            *)
(*     (src/src/servoing/base.py).                                         *)
(*                                                                         *)
(* Units.  Poses of robot.py are 6-tuples of integers in units of 1/90000  *)
(* (metre or radian), so that every product random()*0.02, random()*0.03   *)
(* and random()*2.0/180.0 of a random draw given in hundredths is an exact *)
(* integer.  Servo errors are integers in units of one pixel times the     *)
(* pixel-to-camera factor; servo displacements are in tenths of that unit, *)
(* so that the gain kp = 0.7 is the integer 7.                             *)
(***************************************************************************)
EXTENDS Integers, Sequences, FiniteSets, TLC

VARIABLES
    pc,            \* position of the (single) control thread
    result,        \* outcome of the running call: "none", "True", "False", or an exception name
    ikPlan,        \* kinematics stub: outcome of the first IK requests (TRUE = valid configuration)
    ikDefault,     \* kinematics stub: outcome of every later IK request
    ikCalls,       \* number of IK requests issued in the current call
    n_tries,       \* local n_tries of pick_and_place_object
    moveLog,       \* poses pick_and_place_object handed to _move_to_pose in the current call, in order
    jointMoves,    \* number of joint moves pick_and_place_object commanded in the current call
    nPerturb,      \* number of _perturbe_pose evaluations in the current call
    gripper,       \* "open" or "closed"
    gripping,      \* last answer of gripper.gripping()
    actionLog,     \* gripper / limb commands of _try_object, in order
    imgmsg,        \* Robot._imgmsg: 0 is None, otherwise the number of the stored frame
    subscribed,    \* a camera subscription of _record_image is registered
    frames,        \* number of frames the camera has delivered so far
    frames_at_reset,     \* value of frames when _record_image last reset _imgmsg
    record_image_result, \* what the last _record_image returned (0 is None)
    nDisplay,      \* number of _display_image publications in the current call
    robotMembers,  \* attribute names the robot abstraction handed to Servoing provides
    tolerance,     \* Servoing._tolerance
    object_id,     \* argument object_id of servo
    detPlan,       \* segmentation stub: answers to the first detection requests of a call
    detDefault,    \* segmentation stub: answer to every later detection request
    detCalls,      \* number of detection requests issued in the current call
    detector,      \* segmentation method used by the last detection request
    img,           \* the image held by servo / _iterate: number of arm moves made before its capture
    rroi,          \* the rotated rectangle held by servo / _iterate
    camera_error,  \* the variable camera_error of servo / _iterate
    it,            \* the iteration counter of servo
    target,        \* the pose _iterate hands to the inverse kinematics
    endpoint,      \* endpoint pose of the servoed arm
    nMoveTo,       \* number of robot.move_to commands in the current call
    nMeasure,      \* number of error measurements (_error evaluations) in the current call
    lastMeasure,   \* value of the most recent error measurement
    nVisPub,       \* number of visualization images published in the current call
    shutdown,      \* a stop of the process has been requested (rospy.is_shutdown())
    pub_vis,       \* Servoing._pub_vis: "ok", or the exception its publish raises
    cam_pars,      \* Robot._cam_pars: a function from the populated keys to rationals <<num, den>>
    probe_pose,    \* local pose of _perform_setup (the base probing pose)
    probe_p,       \* local p of _perform_setup (the perturbed pose)
    dist_len,      \* len(dist) of _perform_setup
    dist_sum,      \* sum of the samples in dist
    sensorPlan,    \* range sensor stub: the first readings (millimetres)
    sensorDefault, \* range sensor stub: every later reading
    sensorCalls,   \* number of sensor.state() reads so far
    p2p_px,        \* pixel handed to the last _pixel2position call (hundredths of a pixel)
    p2p_ep,        \* endpoint pose read by the last _pixel2position call
    p2p_out,       \* pose returned by the last _pixel2position call
    init_state,    \* Robot._init_state
    enabled,       \* enable state of the robot
    seg_in,        \* arguments of the last detect_object / detect_best call
    seg_out,       \* what that call returned or raised
    n_picked,      \* the local n of Demonstrator.demonstrate
    n_objects_to_pick, \* the argument of Demonstrator.demonstrate
    shutdownLog    \* the commands clean_shutdown has issued, in their order

pickVars == <<n_tries, moveLog, jointMoves, nPerturb, gripper, gripping,
              actionLog, imgmsg, subscribed, frames, frames_at_reset,
              record_image_result, nDisplay>>
ikVars == <<ikPlan, ikDefault, ikCalls>>
detVars == <<detPlan, detDefault, detCalls, detector>>
servoConf == <<robotMembers, tolerance, object_id, pub_vis>>
servoVars == <<img, rroi, camera_error, it, target, endpoint, nMoveTo,
               nMeasure, lastMeasure, nVisPub>>
calibVars == <<cam_pars, probe_pose, probe_p, dist_len, dist_sum, sensorPlan, sensorDefault,
               sensorCalls, p2p_px, p2p_ep, p2p_out, init_state, enabled>>
segVars == <<seg_in, seg_out>>
demoVars == <<n_picked, n_objects_to_pick>>
vars == <<pc, result, ikVars, pickVars, servoConf, detVars, servoVars, shutdown,
          calibVars, segVars, demoVars, shutdownLog>>

(***************************************************************************)
(* Bounds of the model.                                                    *)
(***************************************************************************)
IkPlanLen == 2
MaxFrames == 2
DetPlanLen == 1
MaxIter == 3
SensorPlanLen == 1
MaxAttempts == 12
MaxObjects == 2

(***************************************************************************)
(* Program constants.                                                      *)
(***************************************************************************)
N_TRIES == 2
PiUnits == 282743
top_pose == <<45000, 0, 13500, 0 - PiUnits, 0, 0>>

None == 0

(***************************************************************************)
(* Python truthiness of a list: a list is true iff it is not empty.        *)
(***************************************************************************)
Truthy(list) == Len(list) > 0

(***************************************************************************)
(* Robot._perturbe_pose.  r is the 6-tuple of np.random.random() draws in  *)
(* hundredths (0..99).                                                     *)
(***************************************************************************)
RandomDraws == {0, 99}
DrawTuples == [1..6 -> RandomDraws]

perturbation_degrees(r) ==
    <<r[1] * 18, r[2] * 27, r[3] * 18, r[4] * 1800, r[5] * 1800, r[6] * 1800>>

perturbation(r) ==
    <<r[1] * 18, r[2] * 27, r[3] * 18, r[4] * 10, r[5] * 10, r[6] * 10>>

perturbe_pose(pose, r) ==
    [i \in 1..6 |-> pose[i] + perturbation(r)[i]]

(***************************************************************************)
(* The kinematics service as a stub: request number k (1-based) within a   *)
(* call finds a valid configuration iff the plan says so.                  *)
(***************************************************************************)
IkPlans == UNION {[1..n -> BOOLEAN] : n \in {IkPlanLen}}

IkValid(k) == IF k <= Len(ikPlan) THEN ikPlan[k] ELSE ikDefault

(***************************************************************************)
(* Python exception matching: "except handler" catches exc.  Of the        *)
(* classes that occur here, ValueError and AttributeError derive from      *)
(* Exception and are unrelated to each other.                              *)
(***************************************************************************)
Catches(handler, exc) == handler = exc \/ handler = "Exception"

(***************************************************************************)
(* Robot._inverse_kinematics for IK request k: "ok" when the response is   *)
(* valid, otherwise the class of the exception it raises (robot.py:380     *)
(* raises a plain Exception).                                              *)
(***************************************************************************)
inverse_kinematics(k) == IF IkValid(k) THEN "ok" ELSE "Exception"

(***************************************************************************)
(* Robot._move_to_pose: the value returned for IK request number k.  The   *)
(* handler is "except Exception".                                          *)
(***************************************************************************)
move_to_pose_always_true(k) == TRUE

move_to_pose(k) ==
    LET e == inverse_kinematics(k)
    IN  ~(e # "ok" /\ Catches("Exception", e))

(***************************************************************************)
(* The robot abstraction handed to Servoing.__init__.  _iterate and        *)
(* _pixel_to_camera_factor read cameras, endpoint_pose, inverse_kinematics *)
(* and move_to; servo reads camears.  The object is supplied by the        *)
(* caller: it provides the members _iterate uses, and may or may not       *)
(* provide an attribute of the name servo reads.                           *)
(***************************************************************************)
IterateMembers == {"cameras", "endpoint_pose", "inverse_kinematics", "move_to"}
RobotVariants == {IterateMembers, IterateMembers \cup {"camears"}}

(***************************************************************************)
(* Attribute lookup on the robot: the name of the exception raised, or     *)
(* "ok".                                                                   *)
(***************************************************************************)
GetAttr(members, name) == IF name \in members THEN "ok" ELSE "AttributeError"

ServoCameraAttr == "camears"
IterateCameraAttr == "cameras"

(***************************************************************************)
(* Tolerances the caller may configure (same unit as the error).           *)
(***************************************************************************)
Tolerances == {0, 5, 8}

(***************************************************************************)
(* Image geometry: the hand camera resolution, and the image centre        *)
(* (w//2, h//2) used by _error and _iterate.                               *)
(***************************************************************************)
ImageW == 1280
ImageH == 800
ImageCenter == <<ImageW \div 2, ImageH \div 2>>

(***************************************************************************)
(* Answers of the segmentation (detect_object / detect_best): the best     *)
(* score in hundredths, and the centre and angle of the rotated rectangle  *)
(* mask_to_rroi derives from the mask.  The size of the rectangle is not   *)
(* read by the code modelled here and is left out.                         *)
(***************************************************************************)
Miss    == [score |-> 80, center |-> <<643, 404>>, angle |-> 0]
Centred == [score |-> 90, center |-> <<640, 400>>, angle |-> 0]
Off5    == [score |-> 90, center |-> <<643, 404>>, angle |-> 30]
Off10   == [score |-> 95, center |-> <<634, 408>>, angle |-> 20]
DetAnswers == {Miss, Centred, Off5, Off10}
DetPlans == [1..DetPlanLen -> DetAnswers]

DetAnswer(k) == IF k <= Len(detPlan) THEN detPlan[k] ELSE detDefault

(***************************************************************************)
(* detect_object / detect_best: box and mask are present iff the best      *)
(* score is strictly above the threshold.                                  *)
(***************************************************************************)
ServoThreshold == 80
MaskPresent(det, threshold) == det.score > threshold

NoRect == [center |-> <<0, 0>>, angle |-> 0, found |-> FALSE]

(***************************************************************************)
(* _find_rotated_enclosing_rect: which segmentation method is used, and    *)
(* the outcome for detection request k: the rectangle, or found = FALSE    *)
(* when ValueError is raised.                                              *)
(***************************************************************************)
DetectorFor_object(oid) == "detect_object"

DetectorFor(oid) == IF oid = "hand" THEN "detect_best" ELSE "detect_object"

find_rotated_enclosing_rect(k) ==
    LET det == DetAnswer(k)
    IN  IF MaskPresent(det, ServoThreshold)
        THEN [center |-> det.center, angle |-> det.angle, found |-> TRUE]
        ELSE NoRect

(***************************************************************************)
(* What _find_rotated_enclosing_rect raises for detection request k:        *)
(* ValueError when there is no mask (base.py:80), otherwise whatever the    *)
(* publish of the visualization image raises (base.py:83), "none" if both   *)
(* succeed.  A failing publish of a ROS publisher raises ROSException.      *)
(***************************************************************************)
PubOutcomes == {"ok", "ROSException"}

find_rotated_enclosing_rect_raises(k) ==
    IF ~find_rotated_enclosing_rect(k).found THEN "ValueError"
    ELSE IF pub_vis # "ok" THEN pub_vis
    ELSE "none"

(***************************************************************************)
(* estimate_distance is left to subclasses; together with the camera's     *)
(* meters_per_pixel it gives the pixel-to-camera factor, modelled as a     *)
(* fixed positive scale (the unit of the error).                           *)
(***************************************************************************)
pixel_to_camera_factor == 1

(***************************************************************************)
(* Integer square root (exact on the perfect squares the centres give).    *)
(***************************************************************************)
ISqrt(n) == CHOOSE r \in 0..n : r * r <= n /\ (r + 1) * (r + 1) > n

(***************************************************************************)
(* Servoing._error: distance of the rectangle centre from the image centre *)
(* in pixels, times the pixel-to-camera factor.                            *)
(***************************************************************************)
error(rect) ==
    LET dx == ImageCenter[1] - rect.center[1]
        dy == ImageCenter[2] - rect.center[2]
    IN  ISqrt(dx * dx + dy * dy) * pixel_to_camera_factor

(***************************************************************************)
(* The correction of _iterate in tenths: kp = 0.7, and the pose handed to  *)
(* the inverse kinematics.                                                 *)
(***************************************************************************)
KpTenths == 7
RestPose == <<0, 0, 0, 0, 0, 0>>

correction_image_minus_detected(rect) ==
    <<(ImageCenter[1] - rect.center[1]) * pixel_to_camera_factor * KpTenths,
      (ImageCenter[2] - rect.center[2]) * pixel_to_camera_factor * KpTenths,
      0, 0, 0, rect.angle * 10>>

correction(rect) ==
    <<(rect.center[1] - ImageCenter[1]) * pixel_to_camera_factor * KpTenths,
      (rect.center[2] - ImageCenter[2]) * pixel_to_camera_factor * KpTenths,
      0, 0, 0, rect.angle * 10>>

target_pose_roll(pose, rect) ==
    [i \in 1..6 |-> pose[i] + correction(rect)[IF i = 4 THEN 6 ELSE IF i = 6 THEN 4 ELSE i]]

target_pose(pose, rect) == [i \in 1..6 |-> pose[i] + correction(rect)[i]]

(***************************************************************************)
(* Calibration (Robot._perform_setup, robot.py:124-160) and the pixel to    *)
(* position map (robot.py:273-284).  Lengths are in units of 1/90000 m, a   *)
(* range reading d is in millimetres, so d/1000.0 is d*90 units.  A         *)
(* rational is a pair <<numerator, denominator>>; the list dist is read     *)
(* only through len(dist) and np.mean(dist), so it is kept as its length    *)
(* and its sum.  Pixels are in hundredths of a pixel.                       *)
(***************************************************************************)
setup_pose == <<54000, 18000, 0, 0 - PiUnits, 0, 0>>
n_calibrations == 10
bin_center == <<43070, 34002>>
resolution == <<ImageW, ImageH>>

SensorReadings == {10, 50, 65000}
SensorPlans == [1..SensorPlanLen -> SensorReadings]
SensorState(k) == IF k <= Len(sensorPlan) THEN sensorPlan[k] ELSE sensorDefault

SensorValid_inclusive(d) == d <= 65000

SensorValid(d) == d < 65000

sample_added(d, q) == d * 90 + q[3]

sample(d, q) == d * 90 - q[3]

mean(sum, len) == <<sum, len>>

setup_continues_until_first(len) == len < 1

setup_continues(len) == len < n_calibrations

(***************************************************************************)
(* The draws _perform_setup makes: the z draw and the other five draws are  *)
(* each at the low or at the high end of random().                          *)
(***************************************************************************)
SetupDraws == {r \in DrawTuples : r[1] = r[2] /\ r[2] = r[4] /\ r[4] = r[5] /\ r[5] = r[6]}

CamParsNone ==
    [kind |-> "None", keys |-> {}, dist |-> <<0, 1>>, mpp |-> <<0, 1>>,
     x_offset |-> 0, y_offset |-> 0, z_offset |-> 0]

CamParsDict == [CamParsNone EXCEPT !.kind = "dict"]

CamParsKeys == {"dist", "mpp", "x_offset", "y_offset", "z_offset"}

cam_pars_of(avg) ==
    [kind |-> "dict", keys |-> CamParsKeys, dist |-> avg, mpp |-> <<1, 400>>,
     x_offset |-> 900, y_offset |-> 0 - 1800, z_offset |-> 1800 + 900 + 0]

(***************************************************************************)
(* A coordinate _pixel2position returns is whole + num/den units.           *)
(***************************************************************************)
Mixed(whole, num, den) == [whole |-> whole, num |-> num, den |-> den]

NoPose == [i \in 1..6 |-> Mixed(0, 0, 1)]

pixel2position_swapped(cp, px, ep) ==
    LET w == resolution[1]
        h == resolution[2]
        num == cp.mpp[1] * cp.dist[1]
        den == cp.mpp[2] * cp.dist[2] * 100
    IN  <<Mixed(ep[1] + cp.x_offset, (px[1] - (h \div 2) * 100) * num, den),
          Mixed(ep[2] + cp.y_offset, (px[2] - (w \div 2) * 100) * num, den),
          Mixed(0 - cp.z_offset, cp.dist[1], cp.dist[2]),
          Mixed(0, 0, 1), Mixed(0, 0, 1), Mixed(0, 0, 1)>>

pixel2position(cp, px, ep) ==
    LET w == resolution[1]
        h == resolution[2]
        num == cp.mpp[1] * cp.dist[1]
        den == cp.mpp[2] * cp.dist[2] * 100
    IN  <<Mixed(ep[1] + cp.x_offset, (px[2] - (h \div 2) * 100) * num, den),
          Mixed(ep[2] + cp.y_offset, (px[1] - (w \div 2) * 100) * num, den),
          Mixed(0 - cp.z_offset, cp.dist[1], cp.dist[2]),
          Mixed(0, 0, 1), Mixed(0, 0, 1), Mixed(0, 0, 1)>>

Pixels == {<<64000, 40000>>, <<65000, 42000>>, <<66000, 44000>>, <<63500, 40300>>}
NeutralPose == <<52000, 0 - 16000, 9000, 0 - PiUnits, 0, 0>>
EndpointPoses == {top_pose, NeutralPose}

(***************************************************************************)
(* The calibration state the other specifications run with: the result of   *)
(* a setup whose ten readings are 50 mm and whose z draws are 0.            *)
(***************************************************************************)
CalibratedInit ==
    /\ cam_pars = cam_pars_of(mean(10 * 4500, 10))
    /\ probe_pose = RestPose
    /\ probe_p = RestPose
    /\ dist_len = 0
    /\ dist_sum = 0
    /\ sensorPlan = <<>>
    /\ sensorDefault = 50
    /\ sensorCalls = 0
    /\ p2p_px = bin_center
    /\ p2p_ep = top_pose
    /\ p2p_out = pixel2position(cam_pars_of(mean(10 * 4500, 10)), bin_center, top_pose)
    /\ init_state = FALSE
    /\ enabled = TRUE

(***************************************************************************)
(* No segmentation request has been made.                                   *)
(***************************************************************************)
SegIdle ==
    [method |-> "none", object_id |-> "none", threshold |-> 0, scores |-> <<>>,
     net |-> TRUE, image |-> <<>>]

SegNoResult ==
    [raised |-> "none", id |-> "none", score |-> 0, box |-> None, mask |-> None]

SegInit ==
    /\ seg_in = SegIdle
    /\ seg_out = SegNoResult

(***************************************************************************)
(* No demonstrate call is running.                                          *)
(***************************************************************************)
DemoIdle ==
    /\ n_picked = 0
    /\ n_objects_to_pick = 0
    /\ shutdownLog = <<>>

(***************************************************************************)
(* State after construction of the Robot (Init) and of a Servoing object   *)
(* (ServoInit).                                                            *)
(***************************************************************************)
Init ==
    /\ pc = "idle"
    /\ result = "none"
    /\ ikPlan = [i \in 1..IkPlanLen |-> TRUE]
    /\ ikDefault = TRUE
    /\ ikCalls = 0
    /\ n_tries = 0
    /\ moveLog = <<>>
    /\ jointMoves = 0
    /\ nPerturb = 0
    /\ gripper = "open"
    /\ gripping = FALSE
    /\ actionLog = <<>>
    /\ imgmsg = None
    /\ subscribed = FALSE
    /\ frames = 0
    /\ frames_at_reset = 0
    /\ record_image_result = None
    /\ nDisplay = 0
    /\ robotMembers = IterateMembers
    /\ tolerance = 0
    /\ pub_vis = "ok"
    /\ object_id = "cup"
    /\ detPlan = [i \in 1..DetPlanLen |-> Centred]
    /\ detDefault = Centred
    /\ detCalls = 0
    /\ detector = "none"
    /\ img = 0
    /\ rroi = NoRect
    /\ camera_error = 0
    /\ it = 0
    /\ target = RestPose
    /\ endpoint = RestPose
    /\ nMoveTo = 0
    /\ nMeasure = 0
    /\ lastMeasure = 0
    /\ nVisPub = 0
    /\ shutdown = FALSE
    /\ CalibratedInit
    /\ SegInit
    /\ DemoIdle

(***************************************************************************)
(* pick_and_place_object is called (robot.py:185).  The kinematics stub of *)
(* the call is an input.  The trigger dummy only sleeps.                   *)
(***************************************************************************)
pick_and_place_object ==
    /\ pc = "idle"
    /\ \E p \in IkPlans, d \in BOOLEAN :
          /\ ikPlan' = p
          /\ ikDefault' = d
    /\ ikCalls' = 0
    /\ result' = "none"
    /\ n_tries' = 0
    /\ moveLog' = <<>>
    /\ jointMoves' = 0
    /\ nPerturb' = 0
    /\ actionLog' = <<>>
    /\ nDisplay' = 0
    /\ pc' = "pick_move"
    /\ UNCHANGED <<gripper, gripping, imgmsg, subscribed, frames, frames_at_reset,
                   record_image_result>>
    /\ UNCHANGED <<servoConf, detVars, servoVars, shutdown>>
    /\ UNCHANGED <<calibVars, segVars, shutdownLog, demoVars>>

(***************************************************************************)
(* robot.py:202-203: the direct move to the top-down pose.                 *)
(***************************************************************************)
pick_direct_move ==
    /\ pc = "pick_move"
    /\ ikCalls' = ikCalls + 1
    /\ moveLog' = Append(moveLog, top_pose)
    /\ IF move_to_pose(ikCalls + 1)
       THEN /\ jointMoves' = jointMoves + 1
            /\ n_tries' = n_tries
            /\ pc' = "try_object"
       ELSE /\ jointMoves' = jointMoves
            /\ n_tries' = N_TRIES
            /\ pc' = "pick_retry"
    /\ UNCHANGED <<result, ikPlan, ikDefault, nPerturb, gripper, gripping,
                   actionLog, imgmsg, subscribed, frames, frames_at_reset,
                   record_image_result, nDisplay>>
    /\ UNCHANGED <<servoConf, detVars, servoVars, shutdown>>
    /\ UNCHANGED <<calibVars, segVars, shutdownLog, demoVars>>

(***************************************************************************)
(* robot.py:204-209: one pass of the retry loop.  The condition of the if  *)
(* is the list returned by _perturbe_pose; no move is commanded.           *)
(***************************************************************************)
pick_retry ==
    /\ pc = "pick_retry"
    /\ n_tries > 0
    /\ \E r \in DrawTuples :
          n_tries' = IF Truthy(perturbe_pose(top_pose, r))
                     THEN 0 - 1
                     ELSE n_tries - 1
    /\ nPerturb' = nPerturb + 1
    /\ UNCHANGED <<pc, result, ikVars, moveLog, jointMoves, gripper, gripping,
                   actionLog, imgmsg, subscribed, frames, frames_at_reset,
                   record_image_result, nDisplay>>
    /\ UNCHANGED <<servoConf, detVars, servoVars, shutdown>>
    /\ UNCHANGED <<calibVars, segVars, shutdownLog, demoVars>>

(***************************************************************************)
(* robot.py:204, 210-212: the loop is left; abort or go on to _try_object. *)
(***************************************************************************)
pick_retry_exit ==
    /\ pc = "pick_retry"
    /\ ~(n_tries > 0)
    /\ IF ~(n_tries = 0 - 1)
       THEN /\ result' = "False"
            /\ pc' = "done"
       ELSE /\ result' = result
            /\ pc' = "try_object"
    /\ UNCHANGED <<ikVars, pickVars>>
    /\ UNCHANGED <<servoConf, detVars, servoVars, shutdown>>
    /\ UNCHANGED <<calibVars, segVars, shutdownLog, demoVars>>

(***************************************************************************)
(* _record_image (robot.py:250): reset the stored frame.                   *)
(***************************************************************************)
record_image_reset_skipped ==
    /\ pc = "try_object"
    /\ imgmsg' = imgmsg
    /\ frames_at_reset' = frames
    /\ pc' = "record_subscribe"
    /\ UNCHANGED <<result, ikVars, n_tries, moveLog, jointMoves, nPerturb,
                   gripper, gripping, actionLog, subscribed, frames,
                   record_image_result, nDisplay>>
    /\ UNCHANGED <<servoConf, detVars, servoVars, shutdown>>
    /\ UNCHANGED <<calibVars, segVars, shutdownLog, demoVars>>

record_image_start ==
    /\ pc = "try_object"
    /\ imgmsg' = None
    /\ frames_at_reset' = frames
    /\ pc' = "record_subscribe"
    /\ UNCHANGED <<result, ikVars, n_tries, moveLog, jointMoves, nPerturb,
                   gripper, gripping, actionLog, subscribed, frames,
                   record_image_result, nDisplay>>
    /\ UNCHANGED <<servoConf, detVars, servoVars, shutdown>>
    /\ UNCHANGED <<calibVars, segVars, shutdownLog, demoVars>>

(***************************************************************************)
(* _record_image (robot.py:251-252): subscribe to the camera topic.        *)
(***************************************************************************)
record_image_subscribe ==
    /\ pc = "record_subscribe"
    /\ subscribed' = TRUE
    /\ pc' = "record_poll"
    /\ UNCHANGED <<result, ikVars, n_tries, moveLog, jointMoves, nPerturb,
                   gripper, gripping, actionLog, imgmsg, frames, frames_at_reset,
                   record_image_result, nDisplay>>
    /\ UNCHANGED <<servoConf, detVars, servoVars, shutdown>>
    /\ UNCHANGED <<calibVars, segVars, shutdownLog, demoVars>>

(***************************************************************************)
(* _camera_callback (robot.py:258-262), run by the subscriber thread.      *)
(***************************************************************************)
camera_callback ==
    /\ subscribed
    /\ frames < MaxFrames
    /\ frames' = frames + 1
    /\ imgmsg' = frames + 1
    /\ UNCHANGED <<pc, result, ikVars, n_tries, moveLog, jointMoves, nPerturb,
                   gripper, gripping, actionLog, subscribed, frames_at_reset,
                   record_image_result, nDisplay>>
    /\ UNCHANGED <<servoConf, detVars, servoVars, shutdown>>
    /\ UNCHANGED <<calibVars, segVars, shutdownLog, demoVars>>

(***************************************************************************)
(* The condition of the polling loop (robot.py:253); while it holds the    *)
(* loop sleeps and tests again.                                            *)
(***************************************************************************)
poll_again_never(msg) == FALSE

poll_again(msg) == msg = None

(***************************************************************************)
(* _record_image (robot.py:253-254): the polling loop finds a frame and    *)
(* is left.  There is no other way out of the loop.                        *)
(***************************************************************************)
record_image_poll ==
    /\ pc = "record_poll"
    /\ ~poll_again(imgmsg)
    /\ pc' = "record_unregister"
    /\ UNCHANGED <<result, ikVars, pickVars>>
    /\ UNCHANGED <<servoConf, detVars, servoVars, shutdown>>
    /\ UNCHANGED <<calibVars, segVars, shutdownLog, demoVars>>

(***************************************************************************)
(* _record_image (robot.py:255): the subscription is unregistered.         *)
(***************************************************************************)
record_image_unregister ==
    /\ pc = "record_unregister"
    /\ subscribed' = FALSE
    /\ pc' = "record_return"
    /\ UNCHANGED <<result, ikVars, n_tries, moveLog, jointMoves, nPerturb,
                   gripper, gripping, actionLog, imgmsg, frames, frames_at_reset,
                   record_image_result, nDisplay>>
    /\ UNCHANGED <<servoConf, detVars, servoVars, shutdown>>
    /\ UNCHANGED <<calibVars, segVars, shutdownLog, demoVars>>

(***************************************************************************)
(* _record_image (robot.py:256) returns the frame stored at that moment;   *)
(* _try_object displays it (robot.py:219-220).                             *)
(***************************************************************************)
record_image_return ==
    /\ pc = "record_return"
    /\ record_image_result' = imgmsg
    /\ nDisplay' = nDisplay + 1
    /\ pc' = "grasp"
    /\ UNCHANGED <<result, ikVars, n_tries, moveLog, jointMoves, nPerturb,
                   gripper, gripping, actionLog, imgmsg, subscribed, frames,
                   frames_at_reset>>
    /\ UNCHANGED <<servoConf, detVars, servoVars, shutdown>>
    /\ UNCHANGED <<calibVars, segVars, shutdownLog, demoVars>>

(***************************************************************************)
(* State of the gripper after a sequence of gripper / limb commands.       *)
(***************************************************************************)
GripperAfter(state, log) ==
    IF \E i \in 1..Len(log) : log[i] \in {"open", "close"}
    THEN LET last == CHOOSE i \in 1..Len(log) :
                        /\ log[i] \in {"open", "close"}
                        /\ \A j \in (i + 1)..Len(log) : log[j] \notin {"open", "close"}
         IN  IF log[last] = "open" THEN "open" ELSE "closed"
    ELSE state

(***************************************************************************)
(* _grasp_object (robot.py:286-292): close the gripper, ask its sensor.    *)
(***************************************************************************)
grasp_object ==
    /\ pc = "grasp"
    /\ actionLog' = Append(actionLog, "close")
    /\ gripper' = GripperAfter(gripper, actionLog')
    /\ \E g \in BOOLEAN : gripping' = g
    /\ pc' = "grasped"
    /\ UNCHANGED <<result, ikVars, n_tries, moveLog, jointMoves, nPerturb,
                   imgmsg, subscribed, frames, frames_at_reset,
                   record_image_result, nDisplay>>
    /\ UNCHANGED <<servoConf, detVars, servoVars, shutdown>>
    /\ UNCHANGED <<calibVars, segVars, shutdownLog, demoVars>>

(***************************************************************************)
(* _release_object (robot.py:294-296): gripper.open(), appended to a       *)
(* command log.                                                            *)
(***************************************************************************)
release_object_skipped(log) == log

release_object(log) == Append(log, "open")

(***************************************************************************)
(* The value _grasp_object returns (robot.py:292): the answer of the       *)
(* gripper's own sensor.                                                   *)
(***************************************************************************)
grasp_result_closed == gripper = "closed"

grasp_result == gripping

(***************************************************************************)
(* _try_object after the grasp (robot.py:231-241).                         *)
(***************************************************************************)
try_object_finish ==
    /\ pc = "grasped"
    /\ IF grasp_result
       THEN /\ actionLog' = Append(release_object(actionLog), "neutral")
            /\ result' = "True"
       ELSE /\ actionLog' = release_object(actionLog)
            /\ result' = "False"
    /\ gripper' = GripperAfter(gripper, actionLog')
    /\ pc' = "done"
    /\ UNCHANGED <<ikVars, n_tries, moveLog, jointMoves, nPerturb, gripping,
                   imgmsg, subscribed, frames, frames_at_reset,
                   record_image_result, nDisplay>>
    /\ UNCHANGED <<servoConf, detVars, servoVars, shutdown>>
    /\ UNCHANGED <<calibVars, segVars, shutdownLog, demoVars>>

(***************************************************************************)
(* The call has returned; the caller goes on.                              *)
(***************************************************************************)
call_return ==
    /\ pc = "done"
    /\ pc' = "idle"
    /\ UNCHANGED <<result, ikVars, pickVars>>
    /\ UNCHANGED <<servoConf, detVars, servoVars, shutdown>>
    /\ UNCHANGED <<calibVars, segVars, shutdownLog, demoVars>>

(***************************************************************************)
(* State after construction of a Servoing object: the robot abstraction    *)
(* and the tolerance are constructor arguments.                            *)
(***************************************************************************)
ServoInit ==
    /\ pc = "idle"
    /\ result = "none"
    /\ ikPlan = [i \in 1..IkPlanLen |-> TRUE]
    /\ ikDefault = TRUE
    /\ ikCalls = 0
    /\ n_tries = 0
    /\ moveLog = <<>>
    /\ jointMoves = 0
    /\ nPerturb = 0
    /\ gripper = "open"
    /\ gripping = FALSE
    /\ actionLog = <<>>
    /\ imgmsg = None
    /\ subscribed = FALSE
    /\ frames = 0
    /\ frames_at_reset = 0
    /\ record_image_result = None
    /\ nDisplay = 0
    /\ robotMembers \in RobotVariants
    /\ tolerance \in Tolerances
    /\ pub_vis \in PubOutcomes
    /\ object_id = "cup"
    /\ detPlan = [i \in 1..DetPlanLen |-> Centred]
    /\ detDefault = Centred
    /\ detCalls = 0
    /\ detector = "none"
    /\ img = 0
    /\ rroi = NoRect
    /\ camera_error = 0
    /\ it = 0
    /\ target = RestPose
    /\ endpoint = RestPose
    /\ nMoveTo = 0
    /\ nMeasure = 0
    /\ lastMeasure = 0
    /\ nVisPub = 0
    /\ shutdown = FALSE
    /\ CalibratedInit
    /\ SegInit
    /\ DemoIdle

(***************************************************************************)
(* servo is called (base.py:174).  The identifier and the behaviour of the *)
(* segmentation and of the kinematics during the call are inputs.          *)
(***************************************************************************)
servo ==
    /\ pc = "idle"
    /\ \E oid \in {"hand", "cup"} : object_id' = oid
    /\ \E p \in DetPlans, d \in DetAnswers :
          /\ detPlan' = p
          /\ detDefault' = d
    /\ \E p \in IkPlans, d \in BOOLEAN :
          /\ ikPlan' = p
          /\ ikDefault' = d
    /\ ikCalls' = 0
    /\ detCalls' = 0
    /\ detector' = "none"
    /\ result' = "none"
    /\ img' = 0
    /\ rroi' = NoRect
    /\ camera_error' = 0
    /\ it' = 0
    /\ target' = RestPose
    /\ endpoint' = RestPose
    /\ nMoveTo' = 0
    /\ nMeasure' = 0
    /\ lastMeasure' = 0
    /\ nVisPub' = 0
    /\ pc' = "servo_collect"
    /\ UNCHANGED <<robotMembers, tolerance, pub_vis, shutdown, pickVars, calibVars,
                   segVars, shutdownLog, demoVars>>

(***************************************************************************)
(* base.py:182: the first image, read through the attribute camears.       *)
(***************************************************************************)
servo_collect_image ==
    /\ pc = "servo_collect"
    /\ IF GetAttr(robotMembers, ServoCameraAttr) = "ok"
       THEN /\ img' = nMoveTo
            /\ result' = result
            /\ pc' = "servo_detect"
       ELSE /\ img' = img
            /\ result' = GetAttr(robotMembers, ServoCameraAttr)
            /\ pc' = "done"
    /\ UNCHANGED <<ikVars, pickVars, calibVars, segVars, shutdownLog, demoVars, servoConf, detVars, rroi, camera_error,
                   it, target, endpoint, nMoveTo, nMeasure, lastMeasure,
                   nVisPub, shutdown>>

(***************************************************************************)
(* base.py:183-190: the initial detection; ValueError is caught and servo  *)
(* returns False, any other exception leaves servo; otherwise the image    *)
(* has been published and the loop variables are set.                      *)
(***************************************************************************)
servo_detect ==
    /\ pc = "servo_detect"
    /\ detCalls' = detCalls + 1
    /\ detector' = DetectorFor(object_id)
    /\ LET r == find_rotated_enclosing_rect(detCalls + 1)
           e == find_rotated_enclosing_rect_raises(detCalls + 1)
       IN  IF e = "none"
           THEN /\ rroi' = r
                /\ nVisPub' = nVisPub + 1
                /\ camera_error' = 2 * tolerance
                /\ it' = 1
                /\ result' = result
                /\ pc' = "servo_loop"
           ELSE /\ IF Catches("ValueError", e)
                   THEN result' = "False"
                   ELSE result' = e
                /\ pc' = "done"
                /\ UNCHANGED <<rroi, nVisPub, camera_error, it>>
    /\ UNCHANGED <<ikVars, pickVars, calibVars, segVars, shutdownLog, demoVars, servoConf, detPlan, detDefault, img,
                   target, endpoint, nMoveTo, nMeasure, lastMeasure, shutdown>>

(***************************************************************************)
(* base.py:191-196: the loop condition; either one more _iterate is        *)
(* started or servo returns True.                                          *)
(***************************************************************************)
servo_continues_with_margin(err, tol) == err > tol + 2

servo_continues(err, tol) == err > tol

servo_loop ==
    /\ pc = "servo_loop"
    /\ IF servo_continues(camera_error, tolerance)
       THEN /\ it < MaxIter
            /\ it' = it + 1
            /\ result' = result
            /\ pc' = "iterate"
       ELSE /\ it' = it
            /\ result' = "True"
            /\ pc' = "done"
    /\ UNCHANGED <<ikVars, pickVars, calibVars, segVars, shutdownLog, demoVars, servoConf, detVars, img, rroi,
                   camera_error, target, endpoint, nMoveTo, nMeasure,
                   lastMeasure, nVisPub, shutdown>>

(***************************************************************************)
(* _iterate, base.py:150-161: collect an image, measure the error of the   *)
(* rectangle handed in; within tolerance return it, otherwise compute the  *)
(* target pose.                                                            *)
(***************************************************************************)
iterate_measure ==
    /\ pc = "iterate"
    /\ IF GetAttr(robotMembers, IterateCameraAttr) = "ok"
       THEN /\ img' = nMoveTo
            /\ camera_error' = error(rroi)
            /\ nMeasure' = nMeasure + 1
            /\ lastMeasure' = error(rroi)
            /\ result' = result
            /\ IF error(rroi) > tolerance
               THEN /\ target' = target_pose(endpoint, rroi)
                    /\ pc' = "iterate_ik"
               ELSE /\ target' = target
                    /\ pc' = "servo_loop"
       ELSE /\ result' = GetAttr(robotMembers, IterateCameraAttr)
            /\ pc' = "done"
            /\ UNCHANGED <<img, camera_error, nMeasure, lastMeasure, target>>
    /\ UNCHANGED <<ikVars, pickVars, calibVars, segVars, shutdownLog, demoVars, servoConf, detVars, rroi, it, endpoint,
                   nMoveTo, nVisPub, shutdown>>

(***************************************************************************)
(* _iterate, base.py:162-164 and 170: the inverse-kinematics request and   *)
(* the move.  An exception of the kinematics that the handler              *)
(* "except ValueError" does not catch leaves _iterate and servo.           *)
(***************************************************************************)
IterateHandler_TypeError == "TypeError"

IterateHandler == "ValueError"

iterate_correct ==
    /\ pc = "iterate_ik"
    /\ ikCalls' = ikCalls + 1
    /\ LET e == inverse_kinematics(ikCalls + 1)
       IN  IF e = "ok"
           THEN /\ nMoveTo' = nMoveTo + 1
                /\ endpoint' = target
                /\ result' = result
                /\ pc' = "iterate_redetect"
           ELSE /\ IF Catches(IterateHandler, e)
                   THEN /\ result' = result
                        /\ pc' = "servo_loop"
                   ELSE /\ result' = e
                        /\ pc' = "done"
                /\ UNCHANGED <<nMoveTo, endpoint>>
    /\ UNCHANGED <<ikPlan, ikDefault, pickVars, calibVars, segVars, shutdownLog, demoVars, servoConf, detVars, img, rroi,
                   camera_error, it, target, nMeasure, lastMeasure, nVisPub,
                   shutdown>>

(***************************************************************************)
(* _iterate, base.py:165-172: detection on the image collected at the top  *)
(* of _iterate and a new measurement; on ValueError the rectangle and the  *)
(* error stay as they were.                                                *)
(***************************************************************************)
iterate_redetect ==
    /\ pc = "iterate_redetect"
    /\ detCalls' = detCalls + 1
    /\ detector' = DetectorFor(object_id)
    /\ LET r == find_rotated_enclosing_rect(detCalls + 1)
           e == find_rotated_enclosing_rect_raises(detCalls + 1)
       IN  IF e = "none"
           THEN /\ rroi' = r
                /\ nVisPub' = nVisPub + 1
                /\ camera_error' = error(r)
                /\ nMeasure' = nMeasure + 1
                /\ lastMeasure' = error(r)
                /\ result' = result
                /\ pc' = "servo_loop"
           ELSE /\ UNCHANGED <<rroi, nVisPub, camera_error, nMeasure, lastMeasure>>
                /\ IF Catches(IterateHandler, e)
                   THEN /\ result' = result
                        /\ pc' = "servo_loop"
                   ELSE /\ result' = e
                        /\ pc' = "done"
    /\ UNCHANGED <<ikVars, pickVars, calibVars, segVars, shutdownLog, demoVars, servoConf, detPlan, detDefault,
                   img, it, target, endpoint, nMoveTo, shutdown>>

(***************************************************************************)
(* The enclosing process is asked to stop (rospy shutdown).                *)
(***************************************************************************)
request_shutdown ==
    /\ ~shutdown
    /\ shutdown' = TRUE
    /\ UNCHANGED <<pc, result, ikVars, pickVars, calibVars, segVars, shutdownLog, demoVars, servoConf, detVars, servoVars>>


Next ==
    \/ pick_and_place_object
    \/ pick_direct_move
    \/ pick_retry
    \/ pick_retry_exit
    \/ record_image_start
    \/ record_image_subscribe
    \/ camera_callback
    \/ record_image_poll
    \/ record_image_unregister
    \/ record_image_return
    \/ grasp_object
    \/ try_object_finish
    \/ call_return

Spec == Init /\ [][Next]_vars

(***************************************************************************)
(* The same program with its scheduling: the thread that called            *)
(* _record_image keeps running (robot.py:253-256), and the subscriber      *)
(* thread runs _camera_callback for every frame the camera still delivers  *)
(* (robot.py:251-252, 258-262).                                            *)
(***************************************************************************)
LiveSpec ==
    /\ Init
    /\ [][Next]_vars
    /\ WF_vars(camera_callback)
    /\ WF_vars(record_image_poll)
    /\ WF_vars(record_image_unregister)
    /\ WF_vars(record_image_return)

(***************************************************************************)
(* servo has returned (base.py:188, 196) and the caller holds its value;    *)
(* the locals of servo and the stubs and records of the call end with it.   *)
(***************************************************************************)
servo_return ==
    /\ pc = "done"
    /\ pc' = "idle"
    /\ ikPlan' = [i \in 1..IkPlanLen |-> TRUE]
    /\ ikDefault' = TRUE
    /\ ikCalls' = 0
    /\ object_id' = "cup"
    /\ detPlan' = [i \in 1..DetPlanLen |-> Centred]
    /\ detDefault' = Centred
    /\ detCalls' = 0
    /\ detector' = "none"
    /\ img' = 0
    /\ rroi' = NoRect
    /\ camera_error' = 0
    /\ it' = 0
    /\ target' = RestPose
    /\ endpoint' = RestPose
    /\ nMoveTo' = 0
    /\ nMeasure' = 0
    /\ lastMeasure' = 0
    /\ nVisPub' = 0
    /\ UNCHANGED <<result, robotMembers, tolerance, pub_vis, shutdown, pickVars,
                   calibVars, segVars, shutdownLog, demoVars>>

ServoNext ==
    \/ servo
    \/ servo_collect_image
    \/ servo_detect
    \/ servo_loop
    \/ iterate_measure
    \/ iterate_correct
    \/ iterate_redetect
    \/ request_shutdown
    \/ servo_return

ServoSpec == ServoInit /\ [][ServoNext]_vars

(***************************************************************************)
(* Construction of the Robot (robot.py:57-107): the state before __init__   *)
(* runs.  The kinematics stub and the range sensor stub are inputs; the     *)
(* robot may be enabled or not when the program starts.                     *)
(***************************************************************************)
SessionInit ==
    /\ pc = "construct"
    /\ result = "none"
    /\ ikPlan \in IkPlans
    /\ ikDefault \in BOOLEAN
    /\ ikCalls = 0
    /\ n_tries = 0
    /\ moveLog = <<>>
    /\ jointMoves = 0
    /\ nPerturb = 0
    /\ gripper = "open"
    /\ gripping = FALSE
    /\ actionLog = <<>>
    /\ imgmsg = None
    /\ subscribed = FALSE
    /\ frames = 0
    /\ frames_at_reset = 0
    /\ record_image_result = None
    /\ nDisplay = 0
    /\ robotMembers = IterateMembers
    /\ tolerance = 0
    /\ pub_vis = "ok"
    /\ object_id = "cup"
    /\ detPlan = [i \in 1..DetPlanLen |-> Centred]
    /\ detDefault = Centred
    /\ detCalls = 0
    /\ detector = "none"
    /\ img = 0
    /\ rroi = NoRect
    /\ camera_error = 0
    /\ it = 0
    /\ target = RestPose
    /\ endpoint = RestPose
    /\ nMoveTo = 0
    /\ nMeasure = 0
    /\ lastMeasure = 0
    /\ nVisPub = 0
    /\ shutdown = FALSE
    /\ cam_pars = CamParsNone
    /\ probe_pose = RestPose
    /\ probe_p = RestPose
    /\ dist_len = 0
    /\ dist_sum = 0
    /\ sensorPlan \in SensorPlans
    /\ sensorDefault \in SensorReadings
    /\ sensorCalls = 0
    /\ p2p_px = <<0, 0>>
    /\ p2p_ep = RestPose
    /\ p2p_out = NoPose
    /\ init_state = FALSE
    /\ enabled \in BOOLEAN
    /\ SegInit
    /\ DemoIdle

(***************************************************************************)
(* Robot.__init__ up to the call of _perform_setup (robot.py:75-103): the   *)
(* image and the parameters are None, the enable state is recorded, the     *)
(* robot is enabled and the white image is displayed.                       *)
(***************************************************************************)
robot_construct_without_setup ==
    /\ pc = "construct"
    /\ imgmsg' = None
    /\ cam_pars' = CamParsNone
    /\ init_state' = enabled
    /\ enabled' = TRUE
    /\ nDisplay' = nDisplay + 1
    /\ pc' = "detect_bin"
    /\ UNCHANGED <<result, ikVars, n_tries, moveLog, jointMoves, nPerturb,
                   gripper, gripping, actionLog, subscribed, frames, frames_at_reset,
                   record_image_result>>
    /\ UNCHANGED <<probe_pose, probe_p, dist_len, dist_sum, sensorPlan, sensorDefault,
                   sensorCalls, p2p_px, p2p_ep, p2p_out>>
    /\ UNCHANGED <<servoConf, detVars, servoVars, shutdown, segVars, shutdownLog, demoVars>>

robot_construct ==
    /\ pc = "construct"
    /\ imgmsg' = None
    /\ cam_pars' = CamParsNone
    /\ init_state' = enabled
    /\ enabled' = TRUE
    /\ nDisplay' = nDisplay + 1
    /\ pc' = "setup"
    /\ UNCHANGED <<result, ikVars, n_tries, moveLog, jointMoves, nPerturb,
                   gripper, gripping, actionLog, subscribed, frames, frames_at_reset,
                   record_image_result>>
    /\ UNCHANGED <<probe_pose, probe_p, dist_len, dist_sum, sensorPlan, sensorDefault,
                   sensorCalls, p2p_px, p2p_ep, p2p_out>>
    /\ UNCHANGED <<servoConf, detVars, servoVars, shutdown, segVars, shutdownLog, demoVars>>

(***************************************************************************)
(* _perform_setup before its loop (robot.py:134-140).                       *)
(***************************************************************************)
perform_setup ==
    /\ pc = "setup"
    /\ probe_pose' = setup_pose
    /\ cam_pars' = CamParsDict
    /\ dist_len' = 0
    /\ dist_sum' = 0
    /\ sensorCalls' = 0
    /\ pc' = "setup_loop"
    /\ UNCHANGED <<result, ikVars, pickVars, probe_p, sensorPlan, sensorDefault,
                   p2p_px, p2p_ep, p2p_out, init_state, enabled>>
    /\ UNCHANGED <<servoConf, detVars, servoVars, shutdown, segVars, shutdownLog, demoVars>>

(***************************************************************************)
(* The loop test holds and the base pose is perturbed (robot.py:141-142).   *)
(***************************************************************************)
setup_perturb ==
    /\ pc = "setup_loop"
    /\ setup_continues(dist_len)
    /\ ikCalls < MaxAttempts
    /\ \E r \in SetupDraws : probe_p' = perturbe_pose(probe_pose, r)
    /\ pc' = "setup_move"
    /\ UNCHANGED <<result, ikVars, pickVars, cam_pars, probe_pose, dist_len, dist_sum,
                   sensorPlan, sensorDefault, sensorCalls, p2p_px, p2p_ep,
                   p2p_out, init_state, enabled>>
    /\ UNCHANGED <<servoConf, detVars, servoVars, shutdown, segVars, shutdownLog, demoVars>>

(***************************************************************************)
(* The rest of one pass of the loop (robot.py:143-150): the move, and after *)
(* a successful move the reading and, if it is valid, the new sample.       *)
(***************************************************************************)
setup_sample ==
    /\ pc = "setup_move"
    /\ ikCalls' = ikCalls + 1
    /\ IF move_to_pose(ikCalls + 1)
         THEN LET d == SensorState(sensorCalls + 1)
              IN  /\ sensorCalls' = sensorCalls + 1
                  /\ IF SensorValid(d)
                       THEN /\ dist_len' = dist_len + 1
                            /\ dist_sum' = dist_sum + sample(d, probe_p)
                       ELSE UNCHANGED <<dist_len, dist_sum>>
         ELSE UNCHANGED <<sensorCalls, dist_len, dist_sum>>
    /\ pc' = "setup_loop"
    /\ UNCHANGED <<result, ikPlan, ikDefault, pickVars, cam_pars, probe_pose, probe_p,
                   sensorPlan, sensorDefault, p2p_px, p2p_ep, p2p_out,
                   init_state, enabled>>
    /\ UNCHANGED <<servoConf, detVars, servoVars, shutdown, segVars, shutdownLog, demoVars>>

(***************************************************************************)
(* The loop test fails: the parameters are stored and _perform_setup        *)
(* returns (robot.py:141, 151-160).  Its locals pose, p, dist and sensor    *)
(* end with the call.                                                       *)
(***************************************************************************)
setup_finish ==
    /\ pc = "setup_loop"
    /\ ~setup_continues(dist_len)
    /\ cam_pars' = cam_pars_of(mean(dist_sum, dist_len))
    /\ probe_pose' = RestPose
    /\ probe_p' = RestPose
    /\ dist_len' = 0
    /\ dist_sum' = 0
    /\ sensorPlan' = <<>>
    /\ sensorDefault' = 50
    /\ sensorCalls' = 0
    /\ pc' = "detect_bin"
    /\ UNCHANGED <<result, ikVars, pickVars, p2p_px, p2p_ep, p2p_out,
                   init_state, enabled>>
    /\ UNCHANGED <<servoConf, detVars, servoVars, shutdown, segVars, shutdownLog, demoVars>>

(***************************************************************************)
(* _detect_bin moves to the top pose and ignores the outcome, then starts   *)
(* _record_image (robot.py:167-169, 250-252).                               *)
(***************************************************************************)
detect_bin ==
    /\ pc = "detect_bin"
    /\ ikCalls' = ikCalls + 1
    /\ imgmsg' = None
    /\ frames_at_reset' = frames
    /\ subscribed' = TRUE
    /\ pc' = "bin_poll"
    /\ UNCHANGED <<result, ikPlan, ikDefault, n_tries, moveLog, jointMoves,
                   nPerturb, gripper, gripping, actionLog, frames,
                   record_image_result, nDisplay>>
    /\ UNCHANGED <<servoConf, detVars, servoVars, shutdown, calibVars, segVars, shutdownLog, demoVars>>

(***************************************************************************)
(* _record_image returns the frame; _detect_bin computes the pose of the    *)
(* fixed bin centre and returns it (robot.py:253-256, 170-179).  The        *)
(* endpoint pose _pixel2position reads is the top pose if the move was made *)
(* and the neutral pose otherwise.                                          *)
(***************************************************************************)
detect_bin_locate ==
    /\ pc = "bin_poll"
    /\ ~poll_again(imgmsg)
    /\ subscribed' = FALSE
    /\ record_image_result' = imgmsg
    /\ LET ep == IF IkValid(ikCalls) THEN top_pose ELSE NeutralPose
       IN  /\ p2p_px' = bin_center
           /\ p2p_ep' = ep
           /\ p2p_out' = pixel2position(cam_pars, bin_center, ep)
    /\ pc' = "approach_bin"
    /\ UNCHANGED <<result, ikVars, n_tries, moveLog, jointMoves, nPerturb,
                   gripper, gripping, actionLog, imgmsg, frames, frames_at_reset,
                   nDisplay>>
    /\ UNCHANGED <<cam_pars, probe_pose, probe_p, dist_len, dist_sum, sensorPlan,
                   sensorDefault, sensorCalls, init_state, enabled>>
    /\ UNCHANGED <<servoConf, detVars, servoVars, shutdown, segVars, shutdownLog, demoVars>>

(***************************************************************************)
(* __init__ approaches the bin pose (robot.py:107, 313-323); the            *)
(* construction is complete.                                                *)
(***************************************************************************)
approach_bin ==
    /\ pc = "approach_bin"
    /\ ikCalls' = ikCalls + 1
    /\ pc' = "idle"
    /\ UNCHANGED <<result, ikPlan, ikDefault, pickVars>>
    /\ UNCHANGED <<servoConf, detVars, servoVars, shutdown, calibVars, segVars, shutdownLog, demoVars>>

(***************************************************************************)
(* _pixel2position applied to a pixel, for an endpoint pose the limb        *)
(* reports (robot.py:273-284).                                              *)
(***************************************************************************)
pixel2position_call ==
    /\ pc = "idle"
    /\ \E px \in Pixels, ep \in EndpointPoses :
          /\ p2p_px' = px
          /\ p2p_ep' = ep
          /\ p2p_out' = pixel2position(cam_pars, px, ep)
    /\ pc' = "p2p_done"
    /\ UNCHANGED <<result, ikVars, pickVars>>
    /\ UNCHANGED <<cam_pars, probe_pose, probe_p, dist_len, dist_sum, sensorPlan,
                   sensorDefault, sensorCalls, init_state, enabled>>
    /\ UNCHANGED <<servoConf, detVars, servoVars, shutdown, segVars, shutdownLog, demoVars>>

(***************************************************************************)
(* The caller drops the returned list.                                      *)
(***************************************************************************)
pixel2position_return ==
    /\ pc = "p2p_done"
    /\ p2p_px' = <<0, 0>>
    /\ p2p_ep' = RestPose
    /\ p2p_out' = NoPose
    /\ pc' = "idle"
    /\ UNCHANGED <<result, ikVars, pickVars>>
    /\ UNCHANGED <<cam_pars, probe_pose, probe_p, dist_len, dist_sum, sensorPlan,
                   sensorDefault, sensorCalls, init_state, enabled>>
    /\ UNCHANGED <<servoConf, detVars, servoVars, shutdown, segVars, shutdownLog, demoVars>>

(***************************************************************************)
(* clean_shutdown (robot.py:114-118): the commands it issues, in their      *)
(* order, and the enable state it leaves.  disable() is called only when    *)
(* the robot was not enabled at construction (robot.py:94).                 *)
(***************************************************************************)
shutdown_commands(init) ==
    <<"display", "neutral">> \o (IF ~init THEN <<"disable">> ELSE <<>>)

enabled_after_shutdown_always_off(init, en) == FALSE

enabled_after_shutdown(init, en) == IF ~init THEN FALSE ELSE en

(***************************************************************************)
(* The process is asked to stop and the registered hook clean_shutdown      *)
(* runs (demonstration.py:75, robot.py:109-119).  The hook is registered    *)
(* once the Robot is constructed.                                           *)
(***************************************************************************)
clean_shutdown_uncalibrate ==
    /\ pc \notin {"construct", "setup", "setup_loop", "setup_move",
                  "detect_bin", "bin_poll", "approach_bin", "shutdown"}
    /\ shutdown' = TRUE
    /\ nDisplay' = nDisplay + 1
    /\ enabled' = enabled_after_shutdown(init_state, enabled)
    /\ shutdownLog' = shutdown_commands(init_state)
    /\ cam_pars' = CamParsNone
    /\ result' = "True"
    /\ pc' = "shutdown"
    /\ UNCHANGED <<ikVars, n_tries, moveLog, jointMoves, nPerturb, gripper,
                   gripping, actionLog, imgmsg, subscribed, frames, frames_at_reset,
                   record_image_result>>
    /\ UNCHANGED <<probe_pose, probe_p, dist_len, dist_sum, sensorPlan,
                   sensorDefault, sensorCalls, p2p_px, p2p_ep, p2p_out, init_state>>
    /\ UNCHANGED <<servoConf, detVars, servoVars, segVars, demoVars>>

clean_shutdown ==
    /\ pc \notin {"construct", "setup", "setup_loop", "setup_move",
                  "detect_bin", "bin_poll", "approach_bin", "shutdown"}
    /\ shutdown' = TRUE
    /\ nDisplay' = nDisplay + 1
    /\ enabled' = enabled_after_shutdown(init_state, enabled)
    /\ shutdownLog' = shutdown_commands(init_state)
    /\ result' = "True"
    /\ pc' = "shutdown"
    /\ UNCHANGED <<ikVars, n_tries, moveLog, jointMoves, nPerturb, gripper,
                   gripping, actionLog, imgmsg, subscribed, frames, frames_at_reset,
                   record_image_result>>
    /\ UNCHANGED <<cam_pars, probe_pose, probe_p, dist_len, dist_sum, sensorPlan,
                   sensorDefault, sensorCalls, p2p_px, p2p_ep, p2p_out, init_state>>
    /\ UNCHANGED <<servoConf, detVars, servoVars, segVars, demoVars>>

SessionNext ==
    \/ robot_construct
    \/ perform_setup
    \/ setup_perturb
    \/ setup_sample
    \/ setup_finish
    \/ detect_bin
    \/ detect_bin_locate
    \/ approach_bin
    \/ pixel2position_call
    \/ pixel2position_return
    \/ clean_shutdown
    \/ Next

SessionSpec == SessionInit /\ [][SessionNext]_vars

(***************************************************************************)
(* Demonstrator.demonstrate (src/scripts/demonstration.py:43-56) on the     *)
(* constructed robot.  The number of objects is the argument of the call;   *)
(* the stop request of the process (rospy.is_shutdown) may arrive at any    *)
(* moment.                                                                  *)
(***************************************************************************)
Targets == 0..MaxObjects

demonstrate ==
    /\ pc = "idle"
    /\ n_picked' = 0
    /\ \E t \in Targets : n_objects_to_pick' = t
    /\ pc' = "demo_loop"
    /\ UNCHANGED <<result, ikVars, pickVars, servoConf, detVars, servoVars,
                   shutdown, calibVars, segVars, shutdownLog>>

(***************************************************************************)
(* The loop condition (demonstration.py:52).                                *)
(***************************************************************************)
demonstrate_continues(sd, n, goal) == ~sd /\ n < goal

(***************************************************************************)
(* The loop condition holds and pick_and_place_object is called             *)
(* (demonstration.py:52-54, robot.py:185); the steps of the call are the    *)
(* actions of the pick path.                                                *)
(***************************************************************************)
demonstrate_attempt ==
    /\ pc = "demo_loop"
    /\ demonstrate_continues(shutdown, n_picked, n_objects_to_pick)
    /\ \E p \in IkPlans, d \in BOOLEAN :
          /\ ikPlan' = p
          /\ ikDefault' = d
    /\ ikCalls' = 0
    /\ result' = "none"
    /\ n_tries' = 0
    /\ moveLog' = <<>>
    /\ jointMoves' = 0
    /\ nPerturb' = 0
    /\ actionLog' = <<>>
    /\ nDisplay' = 0
    /\ pc' = "pick_move"
    /\ UNCHANGED <<gripper, gripping, imgmsg, subscribed, frames, frames_at_reset,
                   record_image_result>>
    /\ UNCHANGED <<servoConf, detVars, servoVars, shutdown>>
    /\ UNCHANGED <<calibVars, segVars, shutdownLog, demoVars>>

(***************************************************************************)
(* pick_and_place_object has returned; n is incremented if the value is     *)
(* true (demonstration.py:54-55), and the loop condition is tested again.   *)
(***************************************************************************)
demonstrate_count_every_attempt ==
    /\ pc = "done"
    /\ n_picked' = n_picked + 1
    /\ pc' = "demo_loop"
    /\ UNCHANGED <<result, ikVars, pickVars, servoConf, detVars, servoVars,
                   shutdown, calibVars, segVars, shutdownLog, n_objects_to_pick>>

demonstrate_count ==
    /\ pc = "done"
    /\ n_picked' = IF result = "True" THEN n_picked + 1 ELSE n_picked
    /\ pc' = "demo_loop"
    /\ UNCHANGED <<result, ikVars, pickVars, servoConf, detVars, servoVars,
                   shutdown, calibVars, segVars, shutdownLog, n_objects_to_pick>>

(***************************************************************************)
(* The loop condition fails and demonstrate returns True                    *)
(* (demonstration.py:52, 56).                                               *)
(***************************************************************************)
demonstrate_return ==
    /\ pc = "demo_loop"
    /\ ~demonstrate_continues(shutdown, n_picked, n_objects_to_pick)
    /\ result' = "True"
    /\ pc' = "demo_done"
    /\ UNCHANGED <<ikVars, pickVars, servoConf, detVars, servoVars,
                   shutdown, calibVars, segVars, shutdownLog, demoVars>>

DemoNext ==
    \/ demonstrate
    \/ demonstrate_attempt
    \/ pick_direct_move
    \/ pick_retry
    \/ pick_retry_exit
    \/ record_image_start
    \/ record_image_subscribe
    \/ camera_callback
    \/ record_image_poll
    \/ record_image_unregister
    \/ record_image_return
    \/ grasp_object
    \/ try_object_finish
    \/ demonstrate_count
    \/ demonstrate_return
    \/ request_shutdown

DemoSpec == Init /\ [][DemoNext]_vars

(***************************************************************************)
(* ObjectSegmentation (src/src/vision/segmentation.py).  The network output *)
(* is an input: a matrix of scores (in hundredths), one row per proposal    *)
(* and one column per class, column 1 being the background.  The box and    *)
(* the mask of proposal i are represented by the number i; None is 0.       *)
(***************************************************************************)
classes == <<"background", "cup", "hand">>
NProposals == 2
ScoreValues == {50, 80, 90}
ScoreMatrices == [1..NProposals -> [1..Len(classes) -> ScoreValues]]
SegThresholds == {50, 80}
ObjectIds == {"cup", "hand", "ball"}
ImageShapes == {<<8, 8, 3>>, <<8, 8>>, <<8, 8, 4>>, <<8, 8, 4, 1>>}

IndexOf(seq, x) == CHOOSE i \in 1..Len(seq) : seq[i] = x /\ \A j \in 1..(i - 1) : seq[j] # x

argmax(seq) ==
    CHOOSE i \in 1..Len(seq) :
        /\ \A j \in 1..Len(seq) : seq[j] <= seq[i]
        /\ \A j \in 1..(i - 1) : seq[j] < seq[i]

(***************************************************************************)
(* detect (segmentation.py:153-175): what it raises, or "ok".  The shape    *)
(* test is "len(image.shape) != 3 and image.shape[2] != 3"; its second      *)
(* operand is evaluated only when the first holds, and indexes the shape.   *)
(***************************************************************************)
detect_shape_first(net, shape) ==
    IF Len(shape) # 3
      THEN IF Len(shape) < 3 THEN "IndexError"
           ELSE IF shape[3] # 3 THEN "ValueError"
                ELSE IF ~net THEN "RuntimeError" ELSE "ok"
      ELSE IF ~net THEN "RuntimeError" ELSE "ok"

detect(net, shape) ==
    IF ~net THEN "RuntimeError"
    ELSE IF Len(shape) # 3
           THEN IF Len(shape) < 3 THEN "IndexError"
                ELSE IF shape[3] # 3 THEN "ValueError" ELSE "ok"
           ELSE "ok"

accepted_inclusive(best_score, threshold) == best_score >= threshold

accepted(best_score, threshold) == best_score > threshold

Raised(exc, id) == [raised |-> exc, id |-> id, score |-> 0, box |-> None, mask |-> None]

Detection(id, best_score, proposal, threshold) ==
    IF accepted(best_score, threshold)
      THEN [raised |-> "none", id |-> id, score |-> best_score,
            box |-> proposal, mask |-> proposal]
      ELSE [raised |-> "none", id |-> id, score |-> best_score,
            box |-> None, mask |-> None]

(***************************************************************************)
(* detect_object (segmentation.py:213-253).                                 *)
(***************************************************************************)
detect_object(in) ==
    IF in.object_id \notin {classes[i] : i \in 1..Len(classes)}
      THEN Raised("KeyError", in.object_id)
      ELSE IF detect(in.net, in.image) # "ok"
             THEN Raised(detect(in.net, in.image), in.object_id)
             ELSE LET cls_idx == IndexOf(classes, in.object_id)
                      cls_scores == [i \in 1..NProposals |-> in.scores[i][cls_idx]]
                      best_idx == argmax(cls_scores)
                  IN  Detection(in.object_id, cls_scores[best_idx], best_idx,
                                in.threshold)

(***************************************************************************)
(* detect_best (segmentation.py:255-291): the argmax runs over the          *)
(* flattened scores without the background, in row-major order.             *)
(***************************************************************************)
detect_best_with_background(in) ==
    IF detect(in.net, in.image) # "ok"
      THEN Raised(detect(in.net, in.image), "none")
      ELSE LET n == Len(classes)
               flat == [k \in 1..(NProposals * n) |->
                           in.scores[((k - 1) \div n) + 1][((k - 1) % n) + 1]]
               best == argmax(flat)
               best_proposal == ((best - 1) \div n) + 1
               best_class == ((best - 1) % n) + 1
           IN  Detection(classes[best_class], in.scores[best_proposal][best_class],
                         best_proposal, in.threshold)

detect_best(in) ==
    IF detect(in.net, in.image) # "ok"
      THEN Raised(detect(in.net, in.image), "none")
      ELSE LET n == Len(classes) - 1
               flat == [k \in 1..(NProposals * n) |->
                           in.scores[((k - 1) \div n) + 1][((k - 1) % n) + 2]]
               best == argmax(flat)
               best_proposal == ((best - 1) \div n) + 1
               best_class == ((best - 1) % n) + 1 + 1
           IN  Detection(classes[best_class], in.scores[best_proposal][best_class],
                         best_proposal, in.threshold)

detect_object_call ==
    /\ pc = "idle"
    /\ \E oid \in ObjectIds, th \in SegThresholds, sc \in ScoreMatrices,
          net \in BOOLEAN, shape \in ImageShapes :
          LET in == [method |-> "detect_object", object_id |-> oid, threshold |-> th,
                     scores |-> sc, net |-> net, image |-> shape]
          IN  /\ seg_in' = in
              /\ seg_out' = detect_object(in)
    /\ pc' = "seg_done"
    /\ UNCHANGED <<result, ikVars, pickVars, servoConf, detVars, servoVars,
                   shutdown, calibVars, demoVars, shutdownLog>>

detect_best_call ==
    /\ pc = "idle"
    /\ \E th \in SegThresholds, sc \in ScoreMatrices,
          net \in BOOLEAN, shape \in ImageShapes :
          LET in == [method |-> "detect_best", object_id |-> "none", threshold |-> th,
                     scores |-> sc, net |-> net, image |-> shape]
          IN  /\ seg_in' = in
              /\ seg_out' = detect_best(in)
    /\ pc' = "seg_done"
    /\ UNCHANGED <<result, ikVars, pickVars, servoConf, detVars, servoVars,
                   shutdown, calibVars, demoVars, shutdownLog>>

(***************************************************************************)
(* The caller has taken the record (or the exception).                      *)
(***************************************************************************)
segmentation_return ==
    /\ pc = "seg_done"
    /\ seg_in' = SegIdle
    /\ seg_out' = SegNoResult
    /\ pc' = "idle"
    /\ UNCHANGED <<result, ikVars, pickVars, servoConf, detVars, servoVars,
                   shutdown, calibVars, demoVars, shutdownLog>>

SegNext ==
    \/ detect_object_call
    \/ detect_best_call
    \/ segmentation_return

SegSpec == Init /\ [][SegNext]_vars



(***************************************************************************)
(* Properties of pick_and_place_object and _try_object (under Spec).       *)
(***************************************************************************)
InTryObject ==
    pc \in {"try_object", "record_subscribe", "record_poll", "record_unregister",
            "record_return", "grasp", "grasped"}
PickStarted == pc \in {"pick_move", "pick_retry", "done"} \/ InTryObject
Closes(log) == Len(SelectSeq(log, LAMBDA c : c = "close"))
Opens(log) == Len(SelectSeq(log, LAMBDA c : c = "open"))

AllMovesFail == ikDefault = FALSE /\ \A i \in 1..Len(ikPlan) : ~ikPlan[i]

FailsTwiceThenSucceeds ==
    /\ Len(ikPlan) >= 2
    /\ ~ikPlan[1]
    /\ ~ikPlan[2]
    /\ \A i \in 3..Len(ikPlan) : ikPlan[i]
    /\ ikDefault

IsPerturbedTopPose(p) == \E r \in DrawTuples : p = perturbe_pose(top_pose, r)

(* C1: when the direct move to the top-down pose and every retry fail to   *)
(* reach a pose (the move primitive fails on every request), the call      *)
(* returns False and the gripper is never closed during the call.          *)
C1_AbortWithoutGrasp ==
    (PickStarted /\ AllMovesFail) =>
        /\ Closes(actionLog) = 0
        /\ gripper = "open"
        /\ (pc = "done" => result = "False")

(* C2: when the move primitive fails exactly twice and then succeeds, once *)
(* the call has left the move phase exactly 2 retry moves, each to a       *)
(* perturbed top-down pose, have been commanded after the failed direct    *)
(* move, the second retry succeeded, and the call has gone on to           *)
(* _try_object (it does not end without one).                              *)
C2_TwoRetriesThenProceed ==
    (FailsTwiceThenSucceeds /\ (InTryObject \/ pc = "done")) =>
        /\ Len(moveLog) = 1 + N_TRIES
        /\ moveLog[1] = top_pose
        /\ \A i \in 2..Len(moveLog) : IsPerturbedTopPose(moveLog[i])
        /\ jointMoves = 1
        /\ (pc = "done" => Closes(actionLog) = 1)

(* C3: when _try_object has closed the gripper and the gripper reports it  *)
(* is not gripping, the call returns False, the gripper was closed exactly *)
(* once and opened exactly once, after the close, and is open at return.   *)
C3_MissedGraspReleasesOnce ==
    (pc = "done" /\ Closes(actionLog) > 0 /\ ~gripping) =>
        /\ result = "False"
        /\ actionLog = <<"close", "open">>
        /\ gripper = "open"

C3_Witness ==
    /\ pc = "done"
    /\ actionLog = <<"close", "open">>
    /\ ~gripping
    /\ result = "False"

(* C4: _try_object returns True iff the gripper's sensor reported gripping *)
(* after the close; on the success path the commands are close, open,      *)
(* move to neutral, in this order and once each; the gripper is open       *)
(* whenever _try_object has returned.                                      *)
C4_TrueIffGripping ==
    (pc = "done" /\ Closes(actionLog) > 0) =>
        /\ (result = "True" <=> gripping)
        /\ (result = "True" => actionLog = <<"close", "open", "neutral">>)
        /\ result \in {"True", "False"}
        /\ gripper = "open"

C4_Witness ==
    /\ pc = "done"
    /\ gripping
    /\ result = "True"
    /\ actionLog = <<"close", "open", "neutral">>
    /\ gripper = "open"

(***************************************************************************)
(* Properties of servo and _iterate (under ServoSpec).                     *)
(***************************************************************************)
FirstDetectionFails == ~MaskPresent(DetAnswer(1), ServoThreshold)

IsCentredAnswer(det) ==
    MaskPresent(det, ServoThreshold) /\ det.center = ImageCenter

AlwaysCentred ==
    /\ IsCentredAnswer(detDefault)
    /\ \A i \in 1..Len(detPlan) : IsCentredAnswer(detPlan[i])

AlwaysSameOffCentre ==
    /\ MaskPresent(detDefault, ServoThreshold)
    /\ error(detDefault) > tolerance
    /\ \A i \in 1..Len(detPlan) : detPlan[i] = detDefault

Returned == pc = "done" /\ result \in {"True", "False"}

(* C5: when the initial detection of servo fails (the segmentation has no  *)
(* mask above the threshold for the first request), servo returns False    *)
(* and has issued no inverse-kinematics request and no move command.       *)
C5_InitialMissReturnsFalse ==
    (pc = "done" /\ FirstDetectionFails) =>
        /\ result = "False"
        /\ ikCalls = 0
        /\ nMoveTo = 0

(* C6: when the segmentation always returns a detection whose rectangle    *)
(* centre is the image centre, servo returns True with zero                *)
(* inverse-kinematics requests and zero move commands.                     *)
C6_CentredConvergesAtOnce ==
    (pc = "done" /\ AlwaysCentred) =>
        /\ result = "True"
        /\ ikCalls = 0
        /\ nMoveTo = 0

(* C7: whenever servo returns True, at least one error measurement was     *)
(* made during the call and the most recent one is at most the tolerance,  *)
(* for every configured tolerance including zero.                          *)
C7_ConvergedMeansMeasured ==
    (pc = "done" /\ result = "True") =>
        /\ nMeasure >= 1
        /\ lastMeasure <= tolerance

(* C8: when the segmentation always reports the same off-centre detection  *)
(* (error above tolerance) and the inverse kinematics fails on every       *)
(* request, servo does not crash: it ends only by returning a well-defined *)
(* result.                                                                 *)
C8_NoCrashWhenKinematicsFails ==
    (pc = "done" /\ AlwaysSameOffCentre /\ AllMovesFail) =>
        result \in {"True", "False"}

(* C9: the stop signal is checked at the top of every iteration: when a    *)
(* stop has been requested and servo is at its loop condition, it does not *)
(* start another _iterate (so no further inverse-kinematics request or     *)
(* move command follows).                                                  *)
C9_StopCheckedEachIteration ==
    [][(shutdown /\ pc = "servo_loop") => pc' # "iterate"]_vars

(* C10: when the inverse kinematics finds no valid configuration in a      *)
(* correction, no move is commanded in that iteration, _iterate returns    *)
(* the rectangle and error it had before the correction, and servo's loop  *)
(* goes on (the failure does not reach the caller of servo).               *)
C10_KinematicsFailureIsSkipped ==
    [][(pc = "iterate_ik" /\ ikCalls' = ikCalls + 1
          /\ inverse_kinematics(ikCalls + 1) # "ok") =>
            /\ nMoveTo' = nMoveTo
            /\ rroi' = rroi
            /\ camera_error' = camera_error
            /\ pc' = "servo_loop"]_vars


(* C11: when the re-detection after a correction move fails inside         *)
(* _iterate, no exception leaves _iterate or servo: _iterate returns the   *)
(* rectangle it was given and the error measured before the move, and      *)
(* servo is back at its loop condition with that pair.                     *)
C11_RedetectionFailureKeepsStalePair ==
    [][(pc = "iterate_redetect" /\ detCalls' = detCalls + 1
          /\ ~find_rotated_enclosing_rect(detCalls + 1).found) =>
            /\ rroi' = rroi
            /\ camera_error' = camera_error
            /\ camera_error' = error(rroi)
            /\ result' = "none"
            /\ pc' = "servo_loop"]_vars

C11_Witness ==
    /\ pc = "servo_loop"
    /\ nMoveTo >= 1
    /\ detCalls >= 2
    /\ ~find_rotated_enclosing_rect(detCalls).found
    /\ rroi.found
    /\ camera_error = error(rroi)
    /\ camera_error > tolerance

Sign(x) == IF x > 0 THEN 1 ELSE IF x < 0 THEN 0 - 1 ELSE 0
Abs(x) == IF x < 0 THEN 0 - x ELSE x

(* C12 as claimed: in a correcting iteration the commanded displacement is *)
(* (image centre - detected centre) * factor * kp per axis, kp = 0.7.      *)
C12_DisplacementImageMinusDetected ==
    (pc = "iterate_ik") =>
        \A i \in 1..2 :
            target[i] - endpoint[i] =
                (ImageCenter[i] - rroi.center[i]) * pixel_to_camera_factor * 7

(* C12 as amended: in a correcting iteration the commanded displacement is *)
(* (detected centre - image centre) * factor * kp per axis, kp = 0.7: dx   *)
(* and dy have the sign of (detected centre minus image centre) and the    *)
(* magnitude 0.7 times the metric pixel offset (here in tenths).           *)
C12_DisplacementDetectedMinusImage ==
    (pc = "iterate_ik") =>
        \A i \in 1..2 :
            /\ Sign(target[i] - endpoint[i]) = Sign(rroi.center[i] - ImageCenter[i])
            /\ Abs(target[i] - endpoint[i]) =
                   7 * Abs(rroi.center[i] - ImageCenter[i]) * pixel_to_camera_factor

C12_Witness ==
    /\ pc = "iterate_ik"
    /\ rroi.center[1] # ImageCenter[1]
    /\ rroi.center[2] # ImageCenter[2]
    /\ target # endpoint

(***************************************************************************)
(* Properties of the calibration and of _pixel2position (under             *)
(* SessionSpec).                                                            *)
(***************************************************************************)
InSetupLoop == pc \in {"setup_loop", "setup_move"}
LeavesSetupLoop == pc = "setup_loop" /\ pc' = "detect_bin"
Calibrated == cam_pars.keys = CamParsKeys
ConstantValidSensor ==
    /\ sensorDefault < 65000
    /\ \A i \in 1..Len(sensorPlan) : sensorPlan[i] = sensorDefault
AllReadingsInvalid ==
    /\ sensorDefault >= 65000
    /\ \A i \in 1..Len(sensorPlan) : sensorPlan[i] >= 65000
AllSetupMovesFail ==
    /\ ~ikDefault
    /\ \A i \in 1..Len(ikPlan) : ~ikPlan[i]

(***************************************************************************)
(* C13: _perform_setup leaves its sampling loop exactly when 10 samples     *)
(* have been recorded.  One pass records a sample only after a successful   *)
(* move to the perturbed pose and a reading below 65000, and the sample is  *)
(* reading/1000 minus the z of that perturbed pose; a failed move or an     *)
(* out-of-range reading records nothing and leads back to the loop test     *)
(* and a new perturbation.  The stored distance is the arithmetic mean of   *)
(* the recorded samples.                                                    *)
(***************************************************************************)
C13_TenSamplesAveraged ==
    [][/\ (pc = "setup_loop" /\ pc' # pc) =>
              IF dist_len = 10 THEN pc' = "detect_bin" ELSE pc' = "setup_move"
       /\ (pc = "setup_move" /\ pc' # pc) =>
              /\ pc' = "setup_loop"
              /\ cam_pars'.keys = {}
              /\ IF IkValid(ikCalls + 1) /\ SensorState(sensorCalls + 1) < 65000
                   THEN /\ dist_len' = dist_len + 1
                        /\ dist_sum' = dist_sum
                              + SensorState(sensorCalls + 1) * 90 - probe_p[3]
                   ELSE /\ dist_len' = dist_len
                        /\ dist_sum' = dist_sum
       /\ LeavesSetupLoop =>
              /\ cam_pars'.dist[2] = 10
              /\ cam_pars'.dist[1] = dist_sum]_vars

C13_Witness ==
    /\ pc = "detect_bin"
    /\ Calibrated
    /\ cam_pars.dist[2] = 10
    /\ ikCalls = 12

(***************************************************************************)
(* C14 as stated: with a sensor that always returns the same valid value d  *)
(* and a base probing pose with z = 0, the stored distance is exactly       *)
(* d/1000.                                                                  *)
(***************************************************************************)
C14_ExactlyTheReading ==
    [][(LeavesSetupLoop /\ ConstantValidSensor /\ probe_pose[3] = 0) =>
          cam_pars'.dist[1] = sensorDefault * 90 * cam_pars'.dist[2]]_vars

(***************************************************************************)
(* C14 amended: with a sensor that always returns the same valid value d    *)
(* and a base probing pose with z = 0, the stored distance is d/1000 minus  *)
(* the mean of the z perturbations of the ten sampled poses, so it lies in  *)
(* (d/1000 - 0.02, d/1000].                                                 *)
(***************************************************************************)
C14_ReadingMinusMeanPerturbation ==
    [][(LeavesSetupLoop /\ ConstantValidSensor /\ probe_pose[3] = 0) =>
          /\ cam_pars'.dist[1] <= sensorDefault * 90 * cam_pars'.dist[2]
          /\ cam_pars'.dist[1] > (sensorDefault * 90 - 1800) * cam_pars'.dist[2]]_vars

C14_Witness ==
    /\ pc = "setup_loop"
    /\ dist_len = 10
    /\ ConstantValidSensor
    /\ probe_pose[3] = 0
    /\ dist_sum < sensorDefault * 90 * dist_len

(***************************************************************************)
(* C15: the calibration loop has no cap on attempts.  The loop is left only *)
(* with 10 valid samples, whatever the number of attempts; if every move    *)
(* fails or every reading is at or above the ceiling, the loop is never     *)
(* left and the parameters are never produced.                              *)
(***************************************************************************)
C15_NoCapOnAttempts ==
    [][/\ LeavesSetupLoop => dist_len = 10
       /\ (pc = "setup_loop" /\ dist_len < 10) => pc' \in {"setup_loop", "setup_move"}
       /\ (InSetupLoop /\ (AllSetupMovesFail \/ AllReadingsInvalid)) =>
              /\ pc' \in {"setup_loop", "setup_move"}
              /\ dist_len' = 0
              /\ cam_pars'.keys = {}]_vars

C15_Witness ==
    /\ pc = "setup_loop"
    /\ ikCalls > 10
    /\ dist_len = 0
    /\ AllSetupMovesFail \/ AllReadingsInvalid

(***************************************************************************)
(* C16: after _perform_setup has completed the stored distance is strictly  *)
(* positive, for every sequence of valid readings and every perturbed       *)
(* pose.                                                                    *)
(***************************************************************************)
C16_DistancePositive ==
    Calibrated => (cam_pars.dist[2] > 0 /\ cam_pars.dist[1] > 0)

(***************************************************************************)
(* C17: once _perform_setup has completed, no later operation (_detect_bin, *)
(* _pixel2position, pick_and_place_object, _try_object, _record_image,      *)
(* clean_shutdown) changes dist, mpp, x_offset, y_offset or z_offset.       *)
(***************************************************************************)
C17_CalibrationIsFrozen ==
    [][Calibrated =>
          /\ cam_pars'.keys = cam_pars.keys
          /\ cam_pars'.dist = cam_pars.dist
          /\ cam_pars'.mpp = cam_pars.mpp
          /\ cam_pars'.x_offset = cam_pars.x_offset
          /\ cam_pars'.y_offset = cam_pars.y_offset
          /\ cam_pars'.z_offset = cam_pars.z_offset]_vars

C17_Witness ==
    /\ pc = "shutdown"
    /\ Calibrated
    /\ p2p_px = bin_center
    /\ actionLog # <<>>
    /\ imgmsg # None

(***************************************************************************)
(* C18: for fixed calibration and endpoint pose _pixel2position is linear   *)
(* in the pixel: x = (row - imageHeight/2)*mpp*dist + endpoint.x +          *)
(* x_offset, y = (col - imageWidth/2)*mpp*dist + endpoint.y + y_offset,     *)
(* z = dist - z_offset, the orientation is zero; doubling the offset of the *)
(* pixel from the image centre doubles the x and y offset from (endpoint +  *)
(* calibration offset).  The pixel is (col, row), in hundredths.            *)
(***************************************************************************)
Doubled(px) == <<2 * px[1] - 64000, 2 * px[2] - 40000>>

C18_LinearInPixel ==
    (p2p_out # NoPose) =>
        /\ p2p_out[1].whole = p2p_ep[1] + cam_pars.x_offset
        /\ p2p_out[1].num = (p2p_px[2] - 40000) * cam_pars.mpp[1] * cam_pars.dist[1]
        /\ p2p_out[1].den = 100 * cam_pars.mpp[2] * cam_pars.dist[2]
        /\ p2p_out[2].whole = p2p_ep[2] + cam_pars.y_offset
        /\ p2p_out[2].num = (p2p_px[1] - 64000) * cam_pars.mpp[1] * cam_pars.dist[1]
        /\ p2p_out[2].den = 100 * cam_pars.mpp[2] * cam_pars.dist[2]
        /\ p2p_out[3].whole = 0 - cam_pars.z_offset
        /\ p2p_out[3].num = cam_pars.dist[1]
        /\ p2p_out[3].den = cam_pars.dist[2]
        /\ \A i \in 4..6 : p2p_out[i].whole = 0 /\ p2p_out[i].num = 0
        /\ \A i \in 1..2 :
              LET twice == pixel2position(cam_pars, Doubled(p2p_px), p2p_ep)[i]
              IN  /\ twice.whole = p2p_out[i].whole
                  /\ twice.den = p2p_out[i].den
                  /\ twice.num = 2 * p2p_out[i].num

C18_Witness ==
    /\ pc = "p2p_done"
    /\ p2p_px = <<65000, 42000>>
    /\ p2p_out[1].num # 0
    /\ p2p_out[2].num # 0
    /\ p2p_out[1].num # p2p_out[2].num

(***************************************************************************)
(* C19: _perturbe_pose returns a new 6-component pose whose deviation from  *)
(* the input is in [0, 0.02) for x, [0, 0.03) for y, [0, 0.02) for z and    *)
(* [0, 2/180) for each orientation component; the input pose is not         *)
(* changed, at every repeated application.                                  *)
(***************************************************************************)
DeviationBound == <<1800, 2700, 1800, 1000, 1000, 1000>>

WithinBounds(from, to) ==
    /\ DOMAIN to = 1..6
    /\ \A i \in 1..6 : 0 <= to[i] - from[i] /\ to[i] - from[i] < DeviationBound[i]

C19_PerturbationBounded ==
    (pc = "setup_move") =>
        /\ probe_pose = setup_pose
        /\ WithinBounds(probe_pose, probe_p)
        /\ (ikCalls = 0) =>
              \A r \in DrawTuples :
                  /\ WithinBounds(probe_pose, perturbe_pose(probe_pose, r))
                  /\ WithinBounds(probe_p, perturbe_pose(probe_p, r))
                  /\ WithinBounds(top_pose, perturbe_pose(top_pose, r))

C19_Witness ==
    /\ pc = "setup_move"
    /\ ikCalls >= 2
    /\ probe_p[3] # probe_pose[3]
    /\ probe_p[4] # probe_pose[4]

(***************************************************************************)
(* Properties of the segmentation (under SegSpec).                          *)
(***************************************************************************)
SegReturned == seg_in.method # "none" /\ seg_out.raised = "none"
SegInputValid ==
    /\ seg_in.method # "none"
    /\ seg_in.net
    /\ Len(seg_in.image) = 3
    /\ seg_in.method = "detect_object" => seg_in.object_id \in {"background", "cup", "hand"}
ScoresConsidered ==
    IF seg_in.method = "detect_object"
      THEN {seg_in.scores[i][j] : i \in 1..NProposals,
                j \in {k \in 1..3 : classes[k] = seg_in.object_id}}
      ELSE {seg_in.scores[i][j] : i \in 1..NProposals, j \in 2..3}
BestScore == CHOOSE x \in ScoresConsidered : \A y \in ScoresConsidered : y <= x

(***************************************************************************)
(* C20: every record detect_object and detect_best return has box and mask  *)
(* both present or both None; they are present exactly when the best score  *)
(* is strictly greater than the caller's threshold; a best score equal to   *)
(* the threshold gives None/None and raises nothing.                        *)
(***************************************************************************)
C20_BoxAndMaskTogether ==
    /\ SegReturned =>
          /\ (seg_out.box = None) <=> (seg_out.mask = None)
          /\ seg_out.score = BestScore
          /\ (seg_out.box # None) <=> (BestScore > seg_in.threshold)
    /\ (SegInputValid /\ BestScore = seg_in.threshold) =>
          /\ seg_out.raised = "none"
          /\ seg_out.box = None
          /\ seg_out.mask = None

C20_Witness ==
    /\ SegReturned
    /\ seg_in.method = "detect_best"
    /\ seg_out.score = seg_in.threshold
    /\ seg_out.box = None
    /\ seg_out.mask = None

(***************************************************************************)
(* C21: a failure of the visualization publish inside the servo path never  *)
(* aborts servo: when a detection found a mask and the publish of the       *)
(* annotated image fails, no exception leaves servo and servo does not      *)
(* report a detection failure; it goes on to its loop condition.            *)
(***************************************************************************)
C21_PublishFailureDoesNotAbort ==
    [][(pc \in {"servo_detect", "iterate_redetect"}
          /\ detCalls' = detCalls + 1
          /\ find_rotated_enclosing_rect(detCalls + 1).found
          /\ pub_vis # "ok") =>
            /\ pc' = "servo_loop"
            /\ result' = "none"]_vars

(***************************************************************************)
(* Properties of _record_image (under Spec and LiveSpec).                  *)
(***************************************************************************)
RecordImageReturns == pc = "record_return" /\ pc' = "grasp"

(* C22: _record_image never returns None: however the camera callback is   *)
(* interleaved with the polling loop, the frame it returns was delivered   *)
(* by the callback after the reset at the start of the same call, and the  *)
(* subscription the call created is unregistered before it returns.        *)
C22_FreshFrameAndUnregistered ==
    [][RecordImageReturns =>
          /\ record_image_result' # None
          /\ record_image_result' > frames_at_reset
          /\ record_image_result' <= frames
          /\ ~subscribed]_vars

C22_Witness ==
    /\ pc = "grasp"
    /\ record_image_result = frames_at_reset + 2
    /\ ~subscribed

(* C23: _record_image has no timeout: while no frame has been delivered    *)
(* since the call's reset the call stays in its polling loop (it never     *)
(* returns if none ever is), and when a frame is delivered, which fair     *)
(* callback delivery ensures as long as the camera has frames, the call    *)
(* eventually returns.                                                     *)
C23_WaitsForAFrameThenReturns ==
    /\ [][(pc = "record_poll" /\ imgmsg = None) => pc' = "record_poll"]_vars
    /\ (pc = "record_poll" /\ (imgmsg # None \/ frames < MaxFrames))
           ~> (pc = "grasp" /\ record_image_result # None)

C23_Witness ==
    /\ pc = "record_poll"
    /\ imgmsg = None
    /\ subscribed
    /\ frames = MaxFrames

(***************************************************************************)
(* Properties of _move_to_pose (under Spec, at the direct move of          *)
(* pick_and_place_object).                                                 *)
(***************************************************************************)
DirectMove == pc = "pick_move" /\ ikCalls' = ikCalls + 1

(* C24: _move_to_pose reports a failure of the inverse kinematics as the   *)
(* return value False and never as an exception: it returns False exactly  *)
(* when the inverse kinematics failed, no joint motion is commanded then,  *)
(* and it returns True only after the joint motion was commanded.          *)
C24_KinematicsFailureIsFalse ==
    [][DirectMove =>
          /\ pc' \in {"pick_retry", "try_object"}
          /\ result' = "none"
          /\ (pc' = "pick_retry") <=> (inverse_kinematics(ikCalls + 1) # "ok")
          /\ (pc' = "pick_retry") => (jointMoves' = jointMoves)
          /\ (pc' = "try_object") => (jointMoves' = jointMoves + 1)]_vars

C24_Witness ==
    /\ pc = "pick_retry"
    /\ ikCalls = 1
    /\ inverse_kinematics(1) # "ok"
    /\ jointMoves = 0
    /\ result = "none"

(***************************************************************************)
(* Further properties of servo and _iterate (under ServoSpec).             *)
(***************************************************************************)

(* C25: after a correction move in _iterate the re-detection and the new   *)
(* measurement are made on a camera frame captured after that move was     *)
(* completed: the image handed to the detection is as recent as the last   *)
(* move.                                                                   *)
C25_RedetectionOnFrameAfterMove ==
    (pc = "iterate_redetect") => (img = nMoveTo)

(* C26: the target pose a servo correction commands differs from the       *)
(* endpoint pose read in that iteration only in x, y and yaw: z, roll and  *)
(* pitch are unchanged, x and y change by dx and dy, and yaw changes by    *)
(* the angle of the detected rectangle.                                    *)
C26_OnlyXYYawChange ==
    (pc = "iterate_ik") =>
        /\ target[1] - endpoint[1] =
               (rroi.center[1] - ImageCenter[1]) * pixel_to_camera_factor * KpTenths
        /\ target[2] - endpoint[2] =
               (rroi.center[2] - ImageCenter[2]) * pixel_to_camera_factor * KpTenths
        /\ \A i \in 3..5 : target[i] = endpoint[i]
        /\ target[6] - endpoint[6] = rroi.angle * 10

C26_Witness ==
    /\ pc = "iterate_ik"
    /\ rroi.angle # 0
    /\ target[1] # endpoint[1]
    /\ target[2] # endpoint[2]
    /\ target[6] # endpoint[6]
    /\ nMoveTo >= 1

(* An iteration has measured the rectangle of the initial detection, its   *)
(* error is above the tolerance, and every detection after the initial one *)
(* fails.                                                                  *)
AllRedetectionsFail ==
    /\ ~MaskPresent(detDefault, ServoThreshold)
    /\ \A i \in 2..Len(detPlan) : ~MaskPresent(detPlan[i], ServoThreshold)

StaleLoop ==
    /\ pc \in {"servo_loop", "iterate", "iterate_ik", "iterate_redetect", "done"}
    /\ AllRedetectionsFail
    /\ nMeasure >= 1
    /\ rroi.found
    /\ error(rroi) > tolerance

(* C27: when the re-detection fails in every iteration while the stale     *)
(* error stays above the tolerance, servo never returns: the loop          *)
(* condition always starts another _iterate, the rectangle stays the one   *)
(* of the initial detection, and every iteration whose inverse kinematics  *)
(* succeeds commands another move computed from that same rectangle, so    *)
(* the number of moves of one call has no bound of its own.                *)
C27_StaleLoopNeverReturns ==
    [][StaleLoop =>
          /\ ~Returned'
          /\ rroi' = rroi \/ pc' = "idle"
          /\ rroi.center = DetAnswer(1).center
          /\ (pc = "servo_loop" /\ pc' # pc) => pc' = "iterate"
          /\ (pc = "iterate_ik" /\ ikCalls' = ikCalls + 1
                /\ inverse_kinematics(ikCalls + 1) = "ok") =>
                  /\ nMoveTo' = nMoveTo + 1
                  /\ endpoint' = target_pose(endpoint, DetAnswer(1))]_vars

C27_Witness ==
    /\ StaleLoop
    /\ pc = "servo_loop"
    /\ it = MaxIter
    /\ nMoveTo = it - 1
    /\ detCalls = it
    /\ camera_error > tolerance

Detects == pc \in {"servo_detect", "iterate_redetect"} /\ detCalls' = detCalls + 1

(* C28: _find_rotated_enclosing_rect uses detect_best for the identifier   *)
(* 'hand' and detect_object for every other identifier, both with the      *)
(* threshold 0.8; it raises ValueError exactly when the returned mask is   *)
(* None (the score is not above 0.8), and it publishes a visualization     *)
(* image only when a mask was found.                                       *)
C28_DetectorChoiceAndValueError ==
    [][Detects =>
          LET det == DetAnswer(detCalls + 1)
          IN  /\ (detector' = "detect_best") <=> (object_id = "hand")
              /\ (detector' = "detect_object") <=> (object_id # "hand")
              /\ (find_rotated_enclosing_rect_raises(detCalls + 1) = "ValueError")
                     <=> (det.score <= 80)
              /\ (pc = "servo_detect") =>
                     ((pc' = "done" /\ result' = "False") <=> (det.score <= 80))
              /\ (det.score <= 80) => (nVisPub' = nVisPub /\ rroi' = rroi)
              /\ nVisPub' \in {nVisPub, nVisPub + 1}
              /\ (nVisPub' = nVisPub + 1) =>
                     (det.score > 80 /\ rroi'.found /\ rroi'.center = det.center)]_vars

C28_Witness ==
    /\ pc = "servo_loop"
    /\ object_id = "hand"
    /\ detector = "detect_best"
    /\ detCalls = 2
    /\ DetAnswer(1).score > 80
    /\ DetAnswer(2).score = 80
    /\ nVisPub = 1

(***************************************************************************)
(* Further properties of the session (under SessionSpec).                  *)
(***************************************************************************)
ConstructionPcs == {"construct", "setup", "setup_loop", "setup_move"}

Pixel2PositionEvaluated ==
    \/ pc = "bin_poll" /\ pc' = "approach_bin"
    \/ pc = "idle" /\ pc' = "p2p_done"

(* C29: calibration precedes every use: in a session _pixel2position is    *)
(* never evaluated before _perform_setup has completed and stored all five *)
(* calibration parameters, and _perform_setup runs exactly once in a       *)
(* session: it is entered from the constructor only, the constructor is    *)
(* never re-entered, and everything after construction finds the           *)
(* parameters stored.                                                      *)
C29_CalibrationPrecedesUse ==
    [][/\ Pixel2PositionEvaluated =>
              /\ cam_pars.kind = "dict"
              /\ cam_pars.keys = {"dist", "mpp", "x_offset", "y_offset", "z_offset"}
              /\ p2p_out' = pixel2position(cam_pars, p2p_px', p2p_ep')
       /\ (pc' = "setup" /\ pc # "setup") => pc = "construct"
       /\ (pc' = "setup_loop" /\ pc \notin {"setup_loop", "setup_move"}) => pc = "setup"
       /\ (pc' = "construct") => (pc = "construct")
       /\ (pc \notin ConstructionPcs) => (Calibrated /\ cam_pars' = cam_pars)]_vars

C29_Witness ==
    /\ pc = "p2p_done"
    /\ Calibrated
    /\ p2p_px # bin_center
    /\ p2p_out = pixel2position(cam_pars, p2p_px, p2p_ep)

(***************************************************************************)
(* Further properties of the segmentation (under SegSpec).                 *)
(***************************************************************************)
BestReturned ==
    SegReturned /\ seg_in.method = "detect_best" /\ seg_out.raised = "none"

ObjectColumns == 2..Len(classes)

SegCalled == pc = "seg_done" /\ seg_in.method # "none"

KnownObject ==
    seg_in.method = "detect_object" =>
        seg_in.object_id \in {classes[i] : i \in 1..Len(classes)}

IsColourImage(shape) == Len(shape) = 3 /\ shape[3] = 3

(* C31: detect raises ValueError for every image that is not a             *)
(* three-channel colour image of shape (h, w, 3), before it runs the       *)
(* network: with a loaded network and a known object, a call with such an  *)
(* image ends with ValueError.                                             *)
C31_ValueErrorUnlessColourImage ==
    (SegCalled /\ seg_in.net /\ KnownObject /\ ~IsColourImage(seg_in.image)) =>
        seg_out.raised = "ValueError"

(* C32: detect_object raises KeyError for an object identifier that is not *)
(* in the configured class list, before any forward pass of the network    *)
(* (whatever the network state and the image are), and detect raises       *)
(* RuntimeError whenever it is called before init_model has loaded the     *)
(* network (whatever the image is); no score is produced in either case.   *)
C32_KeyErrorThenRuntimeError ==
    SegCalled =>
        /\ ~KnownObject =>
              /\ seg_in.method = "detect_object"
              /\ seg_out = Raised("KeyError", seg_in.object_id)
        /\ (KnownObject /\ ~seg_in.net) =>
              /\ seg_out.raised = "RuntimeError"
              /\ seg_out.score = 0
              /\ seg_out.box = None
              /\ seg_out.mask = None
        /\ (seg_out.raised = "KeyError") => ~KnownObject
        /\ (seg_out.raised = "RuntimeError") => ~seg_in.net

C32_Witness ==
    /\ SegCalled
    /\ seg_in.method = "detect_best"
    /\ ~seg_in.net
    /\ ~IsColourImage(seg_in.image)
    /\ seg_out.raised = "RuntimeError"

(* C34: given a robot abstraction that provides exactly the members        *)
(* _iterate relies on (cameras, endpoint_pose, inverse_kinematics,         *)
(* move_to), the first step of servo acquires its first image from that    *)
(* same per-arm camera and reaches the initial detection without raising.  *)
C34_FirstImageFromIterateCamera ==
    [][(pc = "servo_collect" /\ robotMembers = IterateMembers /\ pc' # pc) =>
          /\ pc' = "servo_detect"
          /\ result' = "none"
          /\ img' = nMoveTo]_vars

(***************************************************************************)
(* Properties of Demonstrator.demonstrate (under DemoSpec).                *)
(***************************************************************************)
AttemptReturns == pc = "done" /\ pc' # pc
AttemptStarts == pc = "demo_loop" /\ pc' = "pick_move"
LoopEnds == pc = "demo_loop" /\ pc' = "demo_done"

CleanShutdownRuns == pc # "shutdown" /\ pc' = "shutdown"

(* C35: clean_shutdown restores the enable state of the robot to what it   *)
(* was when the session started: it disables the robot if and only if the  *)
(* robot was disabled at construction, it does so only after it has reset  *)
(* the display and moved the limb to neutral, and it always returns True.  *)
C35_EnableStateRestored ==
    [][CleanShutdownRuns =>
          /\ enabled' = init_state
          /\ (~enabled') <=> (~init_state)
          /\ (\E i \in 1..Len(shutdownLog') : shutdownLog'[i] = "disable")
                 <=> (~init_state)
          /\ Len(shutdownLog') >= 2
          /\ shutdownLog'[1] = "display"
          /\ shutdownLog'[2] = "neutral"
          /\ \A i \in 1..Len(shutdownLog') :
                 (shutdownLog'[i] = "disable") => (i = 3)
          /\ nDisplay' = nDisplay + 1
          /\ result' = "True"]_vars

C35_Witness ==
    /\ pc = "shutdown"
    /\ ~init_state
    /\ ~enabled
    /\ shutdownLog = <<"display", "neutral", "disable">>
    /\ result = "True"

====
